---- MODULE Spec2Model ----
(***************************************************************************)
(* Model of the match-data aggregation engine of rift-duo-coach            *)
(* (src/lib/analytics.ts): aggregateMatchData and the helpers it calls,    *)
(* and of the code around it: the batch loop of getFullYearMatches, the    *)
(* recap cache with generateRecap, and generateFallbackInsights.           *)
(*                                                                         *)
(* Conventions                                                             *)
(*  - A JavaScript number that can be fractional is a pair <<n, d>> in     *)
(*    lowest terms with d >= 0: d > 0 is the rational n/d, <<1, 0>> is     *)
(*    Infinity and <<0, 0>> is NaN.  The inputs are small integers, for    *)
(*    which IEEE-754 division keeps distinct rationals distinct and equal  *)
(*    rationals equal, so comparing quotients is comparing rationals.      *)
(*  - A JavaScript string built by the code is a sequence of one-character *)
(*    strings, "" is <<>>.                                                 *)
(*  - A timestamp (epoch milliseconds in the code) is counted in hours     *)
(*    since the epoch; 86400000 ms is 24 h.  The host time zone is UTC.    *)
(*  - A Map is the sequence of its entries in insertion order.             *)
(***************************************************************************)
EXTENDS Integers, Sequences, FiniteSets, TLC

VARIABLES
    matches,            \* argument: MatchDetails[]
    masteries,          \* argument: EnrichedMastery[]
    pc,                 \* position inside aggregateMatchData
    masteryMap,         \* local: championId -> mastery (insertion ordered)
    overview,           \* locals of the overview block
    championStats,      \* local: ChampionStat[]
    performanceMetrics, \* local
    highlightMatches,   \* local
    temporalTrends,     \* local
    streaks,            \* local
    roleDistribution,   \* local
    result,             \* the returned PlayerAnalytics
    stages,             \* the reducer blocks that have run, in order
    kdaArgs,            \* arguments of a direct calculateKDA call
    kdaValue,           \* its return value
    history,            \* locals of a getFullYearMatches call
    recap,              \* position and locals of a generateRecap call
    insights            \* locals of a generateFallbackInsights call

vars == <<matches, masteries, pc, masteryMap, overview, championStats,
          performanceMetrics, highlightMatches, temporalTrends, streaks,
          roleDistribution, result, stages, kdaArgs, kdaValue,
          history, recap, insights>>

\* null (a highlight of an empty input) and a local not yet assigned
Null == [null |-> TRUE]

Unset == "unset"

\* undefined (Map.get of a missing key)
Undefined == [undefined |-> TRUE]

(***************************************************************************)
(* Numbers                                                                 *)
(***************************************************************************)
Abs(i) == IF i < 0 THEN 0 - i ELSE i

RECURSIVE GCD(_, _)
GCD(a, b) == IF b = 0 THEN a ELSE GCD(b, a % b)

Sign(i) == IF i > 0 THEN 1 ELSE IF i < 0 THEN 0 - 1 ELSE 0

\* the number n/d; d = 0 gives Infinity, -Infinity or NaN as in IEEE-754
Normalise(n, d) ==
    IF d = 0 THEN <<Sign(n), 0>>
    ELSE LET g == GCD(Abs(n), Abs(d))
             s == Sign(d)
         IN  <<(s * n) \div g, (s * d) \div g>>

Num(i) == <<i, 1>>

IsNaN(x) == x = <<0, 0>>

IsFinite(x) == x[2] > 0

\* x / y
JsDiv(x, y) ==
    IF IsNaN(x) \/ IsNaN(y) THEN <<0, 0>>
    ELSE Normalise(x[1] * y[2], x[2] * y[1])

\* x * y
JsMul(x, y) ==
    IF IsNaN(x) \/ IsNaN(y) THEN <<0, 0>>
    ELSE IF (x[2] = 0 /\ y[1] = 0) \/ (y[2] = 0 /\ x[1] = 0) THEN <<0, 0>>
    ELSE Normalise(x[1] * y[1], x[2] * y[2])

\* x > y (false when either is NaN)
JsGt(x, y) ==
    /\ ~IsNaN(x)
    /\ ~IsNaN(y)
    /\ x # y
    /\ x[1] * y[2] > y[1] * x[2]

\* the sign of x - y as a sort comparator sees it (NaN counts as 0)
JsCompare(x, y) ==
    IF JsGt(x, y) THEN 1 ELSE IF JsGt(y, x) THEN 0 - 1 ELSE 0

\* the sum of a sequence of numbers: reduce((sum, x) => sum + x, 0)
SumSeq(s) ==
    LET acc[i \in 0..Len(s)] == IF i = 0 THEN 0 ELSE acc[i - 1] + s[i]
    IN  acc[Len(s)]

(***************************************************************************)
(* Array.prototype.sort: stable since ES2019.  Each element in turn is     *)
(* inserted after every already placed element that does not compare       *)
(* greater than it.                                                        *)
(***************************************************************************)
InsertAt(s, k, x) == SubSeq(s, 1, k) \o <<x>> \o SubSeq(s, k + 1, Len(s))

\* the order in which sort leaves the positions 1..n of an array, given the
\* value cmp[i, j] of the comparator on the elements at positions i and j
SortOrder(n, cmp) ==
    LET acc[i \in 0..n] ==
            IF i = 0 THEN <<>>
            ELSE LET sorted == acc[i - 1]
                 IN  InsertAt(sorted,
                              Cardinality({j \in 1..(i - 1) : cmp[sorted[j], i] <= 0}),
                              i)
    IN  acc[n]

\* the array s rearranged in the order of positions `order`
Reorder(s, order) == [k \in 1..Len(s) |-> s[order[k]]]

(***************************************************************************)
(* Strings                                                                 *)
(***************************************************************************)
DigitChar(i) ==
    CASE i = 0 -> "0" [] i = 1 -> "1" [] i = 2 -> "2" [] i = 3 -> "3"
      [] i = 4 -> "4" [] i = 5 -> "5" [] i = 6 -> "6" [] i = 7 -> "7"
      [] i = 8 -> "8" [] i = 9 -> "9"

\* String(n) for an integer n >= 0
RECURSIVE ToDecimal(_)
ToDecimal(n) ==
    IF n < 10 THEN <<DigitChar(n)>>
    ELSE ToDecimal(n \div 10) \o <<DigitChar(n % 10)>>

\* s.padStart(2, '0')
PadStart2(s) == IF Len(s) >= 2 THEN s ELSE IF Len(s) = 1 THEN <<"0">> \o s ELSE <<"0", "0">>

\* collation rank of the characters the keys are made of
CharRank(c) ==
    CASE c = "-" -> 0
      [] c = "0" -> 1 [] c = "1" -> 2 [] c = "2" -> 3 [] c = "3" -> 4
      [] c = "4" -> 5 [] c = "5" -> 6 [] c = "6" -> 7 [] c = "7" -> 8
      [] c = "8" -> 9 [] c = "9" -> 10
      [] c = "W" -> 11

\* a.localeCompare(b) on key strings: -1, 0 or 1
RECURSIVE localeCompare(_, _)
localeCompare(a, b) ==
    IF Len(a) = 0 /\ Len(b) = 0 THEN 0
    ELSE IF Len(a) = 0 THEN 0 - 1
    ELSE IF Len(b) = 0 THEN 1
    ELSE IF CharRank(Head(a)) < CharRank(Head(b)) THEN 0 - 1
    ELSE IF CharRank(Head(a)) > CharRank(Head(b)) THEN 1
    ELSE localeCompare(Tail(a), Tail(b))

(***************************************************************************)
(* Dates: new Date(timestamp) read in the host time zone (UTC)             *)
(***************************************************************************)
\* the calendar date of a day number counted from 1970-01-01
CivilFromDays(days) ==
    LET z   == days + 719468
        era == z \div 146097
        doe == z - era * 146097
        yoe == (doe - doe \div 1460 + doe \div 36524 - doe \div 146096) \div 365
        doy == doe - (365 * yoe + yoe \div 4 - yoe \div 100)
        mp  == (5 * doy + 2) \div 153
        m   == IF mp < 10 THEN mp + 3 ELSE mp - 9
    IN  [year  |-> yoe + era * 400 + (IF m <= 2 THEN 1 ELSE 0),
         month |-> m,
         day   |-> doy - (153 * mp + 2) \div 5 + 1]

\* the day number of a calendar date
DaysFromCivil(y, m, d) ==
    LET yy  == IF m <= 2 THEN y - 1 ELSE y
        era == yy \div 400
        yoe == yy - era * 400
        doy == (153 * (IF m > 2 THEN m - 3 ELSE m + 9) + 2) \div 5 + d - 1
        doe == yoe * 365 + yoe \div 4 - yoe \div 100 + doy
    IN  era * 146097 + doe - 719468

\* date.getFullYear()
getFullYear(timestamp) == CivilFromDays(timestamp \div 24).year

\* date.getMonth(): 0 is January
getMonth(timestamp) == CivilFromDays(timestamp \div 24).month - 1

\* new Date(year, 0, 1).getTime()
FirstDayOfYear(year) == DaysFromCivil(year, 1, 1) * 24

\* date.getDay(): 0 is Sunday; 1970-01-01 was a Thursday
getDay(timestamp) == ((timestamp \div 24) + 4) % 7

(***************************************************************************)
(* Input records: the fields of MatchDetails and EnrichedMastery that the  *)
(* engine reads                                                            *)
(***************************************************************************)
MatchDetails(id, creation, duration, champId, champName, k, d, a, w, vision, damage, gold, cs, r) ==
    [matchId      |-> id,
     gameCreation |-> creation,
     gameDuration |-> duration,
     participant  |-> [championId         |-> champId,
                       championName       |-> champName,
                       kills              |-> k,
                       deaths             |-> d,
                       assists            |-> a,
                       win                |-> w,
                       visionScore        |-> vision,
                       totalDamageDealt   |-> damage,
                       goldEarned         |-> gold,
                       totalMinionsKilled |-> cs,
                       role               |-> r]]

EnrichedMastery(champId, level, points) ==
    [championId |-> champId, championLevel |-> level, championPoints |-> points]

\* Map.has / Map.get / Map.set on a sequence of [key, value] entries
MapHas(map, key) == \E i \in 1..Len(map) : map[i].key = key

MapGet(map, key) ==
    IF MapHas(map, key)
    THEN map[CHOOSE i \in 1..Len(map) : map[i].key = key].value
    ELSE Undefined

MapSet(map, key, value) ==
    IF MapHas(map, key)
    THEN [i \in 1..Len(map) |->
            IF map[i].key = key THEN [key |-> key, value |-> value] ELSE map[i]]
    ELSE Append(map, [key |-> key, value |-> value])

\* Array.from(map.values())
MapValues(map) == [i \in 1..Len(map) |-> map[i].value]

(***************************************************************************)
(* calculateKDA                                                            *)
(***************************************************************************)
calculateKDAPlusOne(kills, deaths, assists) ==
    JsDiv(Num(kills + assists), Num(deaths + 1))

calculateKDA(kills, deaths, assists) ==
    IF deaths = 0
    THEN Num(kills + assists)
    ELSE JsDiv(Num(kills + assists), Num(deaths))

(***************************************************************************)
(* getMonthString, getWeekString                                           *)
(***************************************************************************)
getMonthString(timestamp) ==
    ToDecimal(getFullYear(timestamp)) \o <<"-">>
        \o PadStart2(ToDecimal(getMonth(timestamp) + 1))

\* Math.ceil(n / d) for n >= 0, d > 0
Ceil(n, d) == (n + d - 1) \div d

getWeekString(timestamp) ==
    LET year           == getFullYear(timestamp)
        firstDayOfYear == FirstDayOfYear(year)
        \* pastDaysOfYear is (timestamp - firstDayOfYear) / 24, so
        \* (pastDaysOfYear + getDay + 1) / 7 is the quotient below
        weekNumber     == Ceil((timestamp - firstDayOfYear)
                                 + 24 * (getDay(firstDayOfYear) + 1), 24 * 7)
    IN  ToDecimal(year) \o <<"-", "W">> \o PadStart2(ToDecimal(weekNumber))

(***************************************************************************)
(* aggregateMatchData: the empty case                                      *)
(***************************************************************************)
EmptyAnalyticsLossStreak ==
    [overview |-> [totalGames |-> 0, totalWins |-> 0, totalLosses |-> 0,
                   winRate |-> Num(0), avgKDA |-> Num(0), avgKills |-> Num(0),
                   avgDeaths |-> Num(0), avgAssists |-> Num(0),
                   totalPlaytime |-> Num(0)],
     championStats |-> <<>>,
     temporalTrends |-> [monthlyWinRate |-> <<>>, weeklyPerformance |-> <<>>,
                         bestMonth |-> <<>>, worstMonth |-> <<>>],
     performanceMetrics |-> [avgVisionScore |-> Num(0),
                             avgDamagePerMinute |-> Num(0),
                             avgGoldPerMinute |-> Num(0),
                             avgCSPerMinute |-> Num(0)],
     streaks |-> [longestWinStreak |-> 0, longestLossStreak |-> 0,
                  currentStreak |-> [type |-> "loss", count |-> 0]],
     roleDistribution |-> <<>>,
     highlightMatches |-> [bestKDA |-> Null, mostKills |-> Null,
                           longestGame |-> Null, highestDamage |-> Null]]

EmptyAnalytics ==
    [overview |-> [totalGames |-> 0, totalWins |-> 0, totalLosses |-> 0,
                   winRate |-> Num(0), avgKDA |-> Num(0), avgKills |-> Num(0),
                   avgDeaths |-> Num(0), avgAssists |-> Num(0),
                   totalPlaytime |-> Num(0)],
     championStats |-> <<>>,
     temporalTrends |-> [monthlyWinRate |-> <<>>, weeklyPerformance |-> <<>>,
                         bestMonth |-> <<>>, worstMonth |-> <<>>],
     performanceMetrics |-> [avgVisionScore |-> Num(0),
                             avgDamagePerMinute |-> Num(0),
                             avgGoldPerMinute |-> Num(0),
                             avgCSPerMinute |-> Num(0)],
     streaks |-> [longestWinStreak |-> 0, longestLossStreak |-> 0,
                  currentStreak |-> [type |-> "win", count |-> 0]],
     roleDistribution |-> <<>>,
     highlightMatches |-> [bestKDA |-> Null, mostKills |-> Null,
                           longestGame |-> Null, highestDamage |-> Null]]

(***************************************************************************)
(* aggregateMatchData: mastery lookup map                                  *)
(***************************************************************************)
BuildMasteryMap(ms) ==
    LET map[i \in 0..Len(ms)] ==
            IF i = 0 THEN <<>>
            ELSE MapSet(map[i - 1], ms[i].championId, ms[i])
    IN  map[Len(ms)]

(***************************************************************************)
(* aggregateMatchData: overview statistics                                 *)
(***************************************************************************)
TotalWinsAll(ms) == Len(ms)

TotalWins(ms) == Len(SelectSeq(ms, LAMBDA m : m.participant.win))

\* totalGames > 0 ? (totalWins / totalGames) * 100 : 0
WinRateOverLosses(totalWins, totalGames) ==
    IF totalGames > 0
    THEN JsMul(JsDiv(Num(totalWins), Num(totalGames - totalWins)), Num(100))
    ELSE Num(0)

WinRate(totalWins, totalGames) ==
    IF totalGames > 0
    THEN JsMul(JsDiv(Num(totalWins), Num(totalGames)), Num(100))
    ELSE Num(0)

OverviewMeanKDA(ms) ==
    LET totalGames   == Len(ms)
        totalWins    == TotalWins(ms)
        totalKills   == SumSeq([i \in 1..Len(ms) |-> ms[i].participant.kills])
        totalDeaths  == SumSeq([i \in 1..Len(ms) |-> ms[i].participant.deaths])
        totalAssists == SumSeq([i \in 1..Len(ms) |-> ms[i].participant.assists])
        kdaSum[i \in 0..Len(ms)] ==
            IF i = 0 THEN Num(0)
            ELSE LET k == calculateKDA(ms[i].participant.kills,
                                       ms[i].participant.deaths,
                                       ms[i].participant.assists)
                 IN  Normalise(kdaSum[i - 1][1] * k[2] + k[1] * kdaSum[i - 1][2],
                               kdaSum[i - 1][2] * k[2])
        totalDuration == SumSeq([i \in 1..Len(ms) |-> ms[i].gameDuration])
    IN  [totalGames    |-> totalGames,
         totalWins     |-> totalWins,
         totalLosses   |-> totalGames - totalWins,
         winRate       |-> WinRate(totalWins, totalGames),
         avgKDA        |-> JsDiv(kdaSum[Len(ms)], Num(totalGames)),
         avgKills      |-> JsDiv(Num(totalKills), Num(totalGames)),
         avgDeaths     |-> JsDiv(Num(totalDeaths), Num(totalGames)),
         avgAssists    |-> JsDiv(Num(totalAssists), Num(totalGames)),
         totalPlaytime |-> JsDiv(Num(totalDuration), Num(3600))]

Overview(ms) ==
    LET totalGames   == Len(ms)
        totalWins    == TotalWins(ms)
        totalKills   == SumSeq([i \in 1..Len(ms) |-> ms[i].participant.kills])
        totalDeaths  == SumSeq([i \in 1..Len(ms) |-> ms[i].participant.deaths])
        totalAssists == SumSeq([i \in 1..Len(ms) |-> ms[i].participant.assists])
        totalDuration == SumSeq([i \in 1..Len(ms) |-> ms[i].gameDuration])
    IN  [totalGames    |-> totalGames,
         totalWins     |-> totalWins,
         totalLosses   |-> totalGames - totalWins,
         winRate       |-> WinRate(totalWins, totalGames),
         avgKDA        |-> calculateKDA(totalKills, totalDeaths, totalAssists),
         avgKills      |-> JsDiv(Num(totalKills), Num(totalGames)),
         avgDeaths     |-> JsDiv(Num(totalDeaths), Num(totalGames)),
         avgAssists    |-> JsDiv(Num(totalAssists), Num(totalGames)),
         totalPlaytime |-> JsDiv(Num(totalDuration), Num(3600))]

(***************************************************************************)
(* aggregateMatchData: champion-specific statistics                        *)
(***************************************************************************)
\* one iteration of matches.forEach over championMap
ChampionMapStepFirstOnly(map, match) ==
    LET p == match.participant
    IN  IF MapHas(map, p.championId) THEN map
        ELSE MapSet(map, p.championId,
                    [championId   |-> p.championId,
                     championName |-> p.championName,
                     games        |-> 1,
                     wins         |-> IF p.win THEN 1 ELSE 0,
                     kills        |-> p.kills,
                     deaths       |-> p.deaths,
                     assists      |-> p.assists,
                     playtime     |-> match.gameDuration])

ChampionMapStepByName(map, match) ==
    LET p      == match.participant
        withId == IF ~MapHas(map, p.championName)
                  THEN MapSet(map, p.championName,
                              [championId   |-> p.championId,
                               championName |-> p.championName,
                               games        |-> 0,
                               wins         |-> 0,
                               kills        |-> 0,
                               deaths       |-> 0,
                               assists      |-> 0,
                               playtime     |-> 0])
                  ELSE map
        stats  == MapGet(withId, p.championName)
    IN  MapSet(withId, p.championName,
               [stats EXCEPT !.games    = @ + 1,
                             !.wins     = IF p.win THEN @ + 1 ELSE @,
                             !.kills    = @ + p.kills,
                             !.deaths   = @ + p.deaths,
                             !.assists  = @ + p.assists,
                             !.playtime = @ + match.gameDuration])

ChampionMapStep(map, match) ==
    LET p      == match.participant
        withId == IF ~MapHas(map, p.championId)
                  THEN MapSet(map, p.championId,
                              [championId   |-> p.championId,
                               championName |-> p.championName,
                               games        |-> 0,
                               wins         |-> 0,
                               kills        |-> 0,
                               deaths       |-> 0,
                               assists      |-> 0,
                               playtime     |-> 0])
                  ELSE map
        stats  == MapGet(withId, p.championId)
    IN  MapSet(withId, p.championId,
               [stats EXCEPT !.games    = @ + 1,
                             !.wins     = IF p.win THEN @ + 1 ELSE @,
                             !.kills    = @ + p.kills,
                             !.deaths   = @ + p.deaths,
                             !.assists  = @ + p.assists,
                             !.playtime = @ + match.gameDuration])

ChampionMap(ms) ==
    LET map[i \in 0..Len(ms)] ==
            IF i = 0 THEN <<>> ELSE ChampionMapStep(map[i - 1], ms[i])
    IN  map[Len(ms)]

\* the .map callback: one ChampionStat, left-joined with the mastery lookup;
\* a property whose value is undefined is a field the record does not have
ChampionStatDefaulted(stats, mMap) ==
    LET mastery == MapGet(mMap, stats.championId)
        base    ==
            [championId    |-> stats.championId,
             championName  |-> stats.championName,
             games         |-> stats.games,
             wins          |-> stats.wins,
             losses        |-> stats.games - stats.wins,
             winRate       |-> JsMul(JsDiv(Num(stats.wins), Num(stats.games)),
                                     Num(100)),
             avgKDA        |-> calculateKDA(stats.kills, stats.deaths,
                                            stats.assists),
             avgKills      |-> JsDiv(Num(stats.kills), Num(stats.games)),
             avgDeaths     |-> JsDiv(Num(stats.deaths), Num(stats.games)),
             avgAssists    |-> JsDiv(Num(stats.assists), Num(stats.games)),
             totalPlaytime |-> JsDiv(Num(stats.playtime), Num(3600))]
    IN  IF MapHas(mMap, stats.championId)
        THEN base @@ [masteryLevel  |-> mastery.championLevel,
                      masteryPoints |-> mastery.championPoints]
        ELSE base @@ [masteryLevel |-> 0, masteryPoints |-> 0]

ChampionStat(stats, mMap) ==
    LET mastery == MapGet(mMap, stats.championId)
        base    ==
            [championId    |-> stats.championId,
             championName  |-> stats.championName,
             games         |-> stats.games,
             wins          |-> stats.wins,
             losses        |-> stats.games - stats.wins,
             winRate       |-> JsMul(JsDiv(Num(stats.wins), Num(stats.games)),
                                     Num(100)),
             avgKDA        |-> calculateKDA(stats.kills, stats.deaths,
                                            stats.assists),
             avgKills      |-> JsDiv(Num(stats.kills), Num(stats.games)),
             avgDeaths     |-> JsDiv(Num(stats.deaths), Num(stats.games)),
             avgAssists    |-> JsDiv(Num(stats.assists), Num(stats.games)),
             totalPlaytime |-> JsDiv(Num(stats.playtime), Num(3600))]
    IN  IF MapHas(mMap, stats.championId)
        THEN base @@ [masteryLevel  |-> mastery.championLevel,
                      masteryPoints |-> mastery.championPoints]
        ELSE base

\* .sort((a, b) => b.games - a.games)
SortByGamesAscending(stats) ==
    Reorder(stats,
            SortOrder(Len(stats),
                      [a, b \in 1..Len(stats) |-> stats[a].games - stats[b].games]))

SortByGames(stats) ==
    Reorder(stats,
            SortOrder(Len(stats),
                      [a, b \in 1..Len(stats) |-> stats[b].games - stats[a].games]))

ChampionStatsInnerJoin(ms, mMap) ==
    LET values == SelectSeq(MapValues(ChampionMap(ms)),
                            LAMBDA v : MapHas(mMap, v.championId))
    IN  SortByGames([i \in 1..Len(values) |-> ChampionStat(values[i], mMap)])

ChampionStats(ms, mMap) ==
    LET values == MapValues(ChampionMap(ms))
    IN  SortByGames([i \in 1..Len(values) |-> ChampionStat(values[i], mMap)])

(***************************************************************************)
(* aggregateMatchData: performance metrics                                 *)
(***************************************************************************)
\* totalGames is the local of the overview block (line 195), read at line 277
PerformanceMetricsPerGame(ms, totalGames) ==
    LET totalVisionScore     ==
            SumSeq([i \in 1..Len(ms) |-> ms[i].participant.visionScore])
        totalDamage          ==
            SumSeq([i \in 1..Len(ms) |-> ms[i].participant.totalDamageDealt])
        totalGold            ==
            SumSeq([i \in 1..Len(ms) |-> ms[i].participant.goldEarned])
        totalCS              ==
            SumSeq([i \in 1..Len(ms) |-> ms[i].participant.totalMinionsKilled])
        totalGameTimeMinutes ==
            JsDiv(Num(SumSeq([i \in 1..Len(ms) |-> ms[i].gameDuration])), Num(60))
    IN  [avgVisionScore     |-> JsDiv(Num(totalVisionScore), totalGames),
         avgDamagePerMinute |-> JsDiv(Num(totalDamage), totalGames),
         avgGoldPerMinute   |-> JsDiv(Num(totalGold), totalGames),
         avgCSPerMinute     |-> JsDiv(Num(totalCS), totalGames)]

PerformanceMetrics(ms, totalGames) ==
    LET totalVisionScore     ==
            SumSeq([i \in 1..Len(ms) |-> ms[i].participant.visionScore])
        totalDamage          ==
            SumSeq([i \in 1..Len(ms) |-> ms[i].participant.totalDamageDealt])
        totalGold            ==
            SumSeq([i \in 1..Len(ms) |-> ms[i].participant.goldEarned])
        totalCS              ==
            SumSeq([i \in 1..Len(ms) |-> ms[i].participant.totalMinionsKilled])
        totalGameTimeMinutes ==
            JsDiv(Num(SumSeq([i \in 1..Len(ms) |-> ms[i].gameDuration])), Num(60))
    IN  [avgVisionScore     |-> JsDiv(Num(totalVisionScore), totalGames),
         avgDamagePerMinute |-> JsDiv(Num(totalDamage), totalGameTimeMinutes),
         avgGoldPerMinute   |-> JsDiv(Num(totalGold), totalGameTimeMinutes),
         avgCSPerMinute     |-> JsDiv(Num(totalCS), totalGameTimeMinutes)]

(***************************************************************************)
(* aggregateMatchData: highlight matches                                   *)
(***************************************************************************)
\* the eight locals before the scan
HighlightInitZero ==
    [bestKDA       |-> Null, bestKDAValue        |-> Num(0),
     mostKills     |-> Null, mostKillsValue      |-> 0,
     longestGame   |-> Null, longestGameDuration |-> 0,
     highestDamage |-> Null, highestDamageValue  |-> 0]

HighlightInit ==
    [bestKDA       |-> Null, bestKDAValue        |-> Num(0 - 1),
     mostKills     |-> Null, mostKillsValue      |-> 0 - 1,
     longestGame   |-> Null, longestGameDuration |-> 0 - 1,
     highestDamage |-> Null, highestDamageValue  |-> 0 - 1]

\* one iteration of matches.forEach over the running maxima
HighlightStepLastWins(acc, match) ==
    LET p    == match.participant
        kda  == calculateKDA(p.kills, p.deaths, p.assists)
        newK == ~JsGt(acc.bestKDAValue, kda)
        newM == p.kills >= acc.mostKillsValue
        newL == match.gameDuration >= acc.longestGameDuration
        newD == p.totalDamageDealt >= acc.highestDamageValue
    IN  [bestKDA             |-> IF newK THEN match ELSE acc.bestKDA,
         bestKDAValue        |-> IF newK THEN kda ELSE acc.bestKDAValue,
         mostKills           |-> IF newM THEN match ELSE acc.mostKills,
         mostKillsValue      |-> IF newM THEN p.kills ELSE acc.mostKillsValue,
         longestGame         |-> IF newL THEN match ELSE acc.longestGame,
         longestGameDuration |-> IF newL THEN match.gameDuration
                                 ELSE acc.longestGameDuration,
         highestDamage       |-> IF newD THEN match ELSE acc.highestDamage,
         highestDamageValue  |-> IF newD THEN p.totalDamageDealt
                                 ELSE acc.highestDamageValue]

HighlightStep(acc, match) ==
    LET p    == match.participant
        kda  == calculateKDA(p.kills, p.deaths, p.assists)
        newK == JsGt(kda, acc.bestKDAValue)
        newM == p.kills > acc.mostKillsValue
        newL == match.gameDuration > acc.longestGameDuration
        newD == p.totalDamageDealt > acc.highestDamageValue
    IN  [bestKDA             |-> IF newK THEN match ELSE acc.bestKDA,
         bestKDAValue        |-> IF newK THEN kda ELSE acc.bestKDAValue,
         mostKills           |-> IF newM THEN match ELSE acc.mostKills,
         mostKillsValue      |-> IF newM THEN p.kills ELSE acc.mostKillsValue,
         longestGame         |-> IF newL THEN match ELSE acc.longestGame,
         longestGameDuration |-> IF newL THEN match.gameDuration
                                 ELSE acc.longestGameDuration,
         highestDamage       |-> IF newD THEN match ELSE acc.highestDamage,
         highestDamageValue  |-> IF newD THEN p.totalDamageDealt
                                 ELSE acc.highestDamageValue]

HighlightMatches(ms) ==
    LET scan[i \in 0..Len(ms)] ==
            IF i = 0 THEN HighlightInit ELSE HighlightStep(scan[i - 1], ms[i])
        acc == scan[Len(ms)]
    IN  [bestKDA       |-> acc.bestKDA,
         mostKills     |-> acc.mostKills,
         longestGame   |-> acc.longestGame,
         highestDamage |-> acc.highestDamage]

(***************************************************************************)
(* calculateTemporalTrends                                                 *)
(***************************************************************************)
\* one iteration of matches.forEach over monthlyMap or weeklyMap
BucketStep(map, key, win) ==
    LET withKey == IF ~MapHas(map, key)
                   THEN MapSet(map, key, [games |-> 0, wins |-> 0])
                   ELSE map
        stats   == MapGet(withKey, key)
    IN  MapSet(withKey, key,
               [games |-> stats.games + 1,
                wins  |-> IF win THEN stats.wins + 1 ELSE stats.wins])

MonthlyMap(ms) ==
    LET map[i \in 0..Len(ms)] ==
            IF i = 0 THEN <<>>
            ELSE BucketStep(map[i - 1], getMonthString(ms[i].gameCreation),
                            ms[i].participant.win)
    IN  map[Len(ms)]

WeeklyMap(ms) ==
    LET map[i \in 0..Len(ms)] ==
            IF i = 0 THEN <<>>
            ELSE BucketStep(map[i - 1], getWeekString(ms[i].gameCreation),
                            ms[i].participant.win)
    IN  map[Len(ms)]

\* Array.from(monthlyMap.entries()).map(([month, stats]) => ...)
MonthlyData(entry) ==
    [month   |-> entry.key,
     games   |-> entry.value.games,
     wins    |-> entry.value.wins,
     losses  |-> entry.value.games - entry.value.wins,
     winRate |-> JsMul(JsDiv(Num(entry.value.wins), Num(entry.value.games)),
                       Num(100))]

\* Array.from(weeklyMap.entries()).map(([week, stats]) => ...)
WeeklyData(entry) ==
    [week    |-> entry.key,
     games   |-> entry.value.games,
     wins    |-> entry.value.wins,
     losses  |-> entry.value.games - entry.value.wins,
     winRate |-> JsMul(JsDiv(Num(entry.value.wins), Num(entry.value.games)),
                       Num(100))]

\* .sort((a, b) => a.month.localeCompare(b.month))
SortByMonthUnsorted(data) == data

SortByMonth(data) ==
    Reorder(data,
            SortOrder(Len(data),
                      [a, b \in 1..Len(data) |->
                          localeCompare(data[a].month, data[b].month)]))

\* .sort((a, b) => a.week.localeCompare(b.week))
SortByWeekUnsorted(data) == data

SortByWeek(data) ==
    Reorder(data,
            SortOrder(Len(data),
                      [a, b \in 1..Len(data) |->
                          localeCompare(data[a].week, data[b].week)]))

MonthlyWinRate(ms) ==
    LET entries == MonthlyMap(ms)
    IN  SortByMonth([i \in 1..Len(entries) |-> MonthlyData(entries[i])])

WeeklyPerformance(ms) ==
    LET entries == WeeklyMap(ms)
    IN  SortByWeek([i \in 1..Len(entries) |-> WeeklyData(entries[i])])

\* monthlyWinRate.filter(m => m.games >= 5)
SignificantMonthsAny(monthlyWinRate) ==
    SelectSeq(monthlyWinRate, LAMBDA m : m.games >= 1)

SignificantMonths(monthlyWinRate) ==
    SelectSeq(monthlyWinRate, LAMBDA m : m.games >= 5)

\* [...significantMonths].sort((a, b) => b.winRate - a.winRate)
SortByWinRateAscending(months) ==
    Reorder(months,
            SortOrder(Len(months),
                      [a, b \in 1..Len(months) |->
                          JsCompare(months[a].winRate, months[b].winRate)]))

SortByWinRateTiesReversed(months) ==
    LET reversed == [i \in 1..Len(months) |-> months[Len(months) + 1 - i]]
    IN  Reorder(reversed,
                SortOrder(Len(reversed),
                          [a, b \in 1..Len(reversed) |->
                              JsCompare(reversed[b].winRate, reversed[a].winRate)]))

SortByWinRate(months) ==
    Reorder(months,
            SortOrder(Len(months),
                      [a, b \in 1..Len(months) |->
                          JsCompare(months[b].winRate, months[a].winRate)]))

calculateTemporalTrends(ms) ==
    IF Len(ms) = 0
    THEN [monthlyWinRate |-> <<>>, weeklyPerformance |-> <<>>,
          bestMonth |-> <<>>, worstMonth |-> <<>>]
    ELSE LET monthlyWinRate    == MonthlyWinRate(ms)
             significantMonths == SignificantMonths(monthlyWinRate)
             sortedByWinRate   == SortByWinRate(significantMonths)
         IN  [monthlyWinRate    |-> monthlyWinRate,
              weeklyPerformance |-> WeeklyPerformance(ms),
              bestMonth         |-> IF Len(significantMonths) > 0
                                    THEN sortedByWinRate[1].month ELSE <<>>,
              worstMonth        |-> IF Len(significantMonths) > 0
                                    THEN sortedByWinRate[Len(sortedByWinRate)].month
                                    ELSE <<>>]

(***************************************************************************)
(* calculateStreaks                                                        *)
(***************************************************************************)
\* [...matches].sort((a, b) => a.gameCreation - b.gameCreation)
SortByGameCreationUnsorted(ms) == ms

SortByGameCreation(ms) ==
    Reorder(ms,
            SortOrder(Len(ms),
                      [a, b \in 1..Len(ms) |->
                          ms[a].gameCreation - ms[b].gameCreation]))

\* the argument array after [...matches].sort(...): the spread makes a copy
\* and the sort rearranges the copy
MatchesAfterStreaksInPlace(ms) == SortByGameCreation(ms)

MatchesAfterStreaks(ms) == ms

StreakInit ==
    [longestWinStreak |-> 0, longestLossStreak |-> 0,
     currentWinStreak |-> 0, currentLossStreak |-> 0]

Max(a, b) == IF a >= b THEN a ELSE b

\* one iteration of sortedMatches.forEach
StreakStepNoReset(acc, match) ==
    IF match.participant.win
    THEN [acc EXCEPT !.currentWinStreak = @ + 1,
                     !.longestWinStreak = Max(@, acc.currentWinStreak + 1)]
    ELSE [acc EXCEPT !.currentLossStreak = @ + 1,
                     !.longestLossStreak = Max(@, acc.currentLossStreak + 1)]

StreakStep(acc, match) ==
    IF match.participant.win
    THEN [acc EXCEPT !.currentWinStreak  = @ + 1,
                     !.currentLossStreak = 0,
                     !.longestWinStreak  = Max(@, acc.currentWinStreak + 1)]
    ELSE [acc EXCEPT !.currentLossStreak = @ + 1,
                     !.currentWinStreak  = 0,
                     !.longestLossStreak = Max(@, acc.currentLossStreak + 1)]

calculateStreaks(ms) ==
    IF Len(ms) = 0
    THEN [longestWinStreak |-> 0, longestLossStreak |-> 0,
          currentStreak |-> [type |-> "win", count |-> 0]]
    ELSE LET sortedMatches == SortByGameCreation(ms)
             scan[i \in 0..Len(ms)] ==
                 IF i = 0 THEN StreakInit
                 ELSE StreakStep(scan[i - 1], sortedMatches[i])
             acc == scan[Len(ms)]
         IN  [longestWinStreak  |-> acc.longestWinStreak,
              longestLossStreak |-> acc.longestLossStreak,
              currentStreak     |->
                  IF acc.currentWinStreak > 0
                  THEN [type |-> "win", count |-> acc.currentWinStreak]
                  ELSE [type |-> "loss", count |-> acc.currentLossStreak]]

(***************************************************************************)
(* calculateRoleDistribution                                               *)
(***************************************************************************)
\* one iteration of matches.forEach over roleMap
\* the properties roleMap = {} inherits from Object.prototype
ObjectPrototypeKeys ==
    {"constructor", "hasOwnProperty", "isPrototypeOf", "propertyIsEnumerable",
     "toLocaleString", "toString", "valueOf", "__defineGetter__",
     "__defineSetter__", "__lookupGetter__", "__lookupSetter__", "__proto__"}

\* String(roleMap[role]) for an inherited property, as the pieces of the text
InheritedText(role) ==
    IF role = "__proto__" THEN <<"[object Object]">>
    ELSE <<"function ", IF role = "constructor" THEN "Object" ELSE role,
           "() { [native code] }">>

\* one iteration of matches.forEach; a property value is a number
\* [number |-> n] or a string [string |-> pieces]; a participant record
\* without a role field has role undefined; an assignment to __proto__ of a
\* primitive is ignored
RoleStep(roleMap, match) ==
    LET p    == match.participant
        role == IF "role" \notin DOMAIN p THEN "UNKNOWN"
                ELSE IF p.role = "" THEN "UNKNOWN"
                ELSE p.role
        sum  == IF role \in DOMAIN roleMap
                THEN IF "number" \in DOMAIN roleMap[role]
                     THEN [number |-> roleMap[role].number + 1]
                     ELSE [string |-> Append(roleMap[role].string, "1")]
                ELSE IF role \in ObjectPrototypeKeys
                     THEN [string |-> Append(InheritedText(role), "1")]
                     ELSE [number |-> 1]
    IN  IF role = "__proto__" THEN roleMap
        ELSE [r \in (DOMAIN roleMap) \cup {role} |->
                 IF r = role THEN sum ELSE roleMap[r]]

calculateRoleDistribution(ms) ==
    LET roleMap[i \in 0..Len(ms)] ==
            IF i = 0 THEN <<>> ELSE RoleStep(roleMap[i - 1], ms[i])
    IN  roleMap[Len(ms)]

(***************************************************************************)
(* The call of aggregateMatchData, block by block in the order of the code *)
(***************************************************************************)
ReturnEmpty ==
    /\ pc = "call"
    /\ Len(matches) = 0
    /\ result' = EmptyAnalytics
    /\ pc' = "done"
    /\ UNCHANGED <<history, recap, insights>>
    /\ UNCHANGED <<matches, masteries, stages, masteryMap, overview, championStats,
                   performanceMetrics, highlightMatches, temporalTrends,
                   streaks, roleDistribution, kdaArgs, kdaValue>>

MasteryLookup ==
    /\ pc = "call"
    /\ Len(matches) # 0
    /\ masteryMap' = BuildMasteryMap(masteries)
    /\ pc' = "overview"
    /\ UNCHANGED <<history, recap, insights>>
    /\ UNCHANGED <<matches, masteries, stages, overview, championStats,
                   performanceMetrics, highlightMatches, temporalTrends,
                   streaks, roleDistribution, result, kdaArgs, kdaValue>>

OverviewStage ==
    /\ pc = "overview"
    /\ overview' = Overview(matches)
    /\ pc' = "champions"
    /\ stages' = Append(stages, "overview")
    /\ UNCHANGED <<history, recap, insights>>
    /\ UNCHANGED <<matches, masteries, masteryMap, championStats,
                   performanceMetrics, highlightMatches, temporalTrends,
                   streaks, roleDistribution, result, kdaArgs, kdaValue>>

ChampionStage ==
    /\ pc = "champions"
    /\ championStats' = ChampionStats(matches, masteryMap)
    /\ pc' = "performance"
    /\ stages' = Append(stages, "champions")
    /\ UNCHANGED <<history, recap, insights>>
    /\ UNCHANGED <<matches, masteries, masteryMap, overview,
                   performanceMetrics, highlightMatches, temporalTrends,
                   streaks, roleDistribution, result, kdaArgs, kdaValue>>

PerformanceStage ==
    /\ pc = "performance"
    /\ performanceMetrics' = PerformanceMetrics(matches, Num(overview.totalGames))
    /\ pc' = "highlights"
    /\ stages' = Append(stages, "performance")
    /\ UNCHANGED <<history, recap, insights>>
    /\ UNCHANGED <<matches, masteries, masteryMap, overview, championStats,
                   highlightMatches, temporalTrends, streaks,
                   roleDistribution, result, kdaArgs, kdaValue>>

HighlightStage ==
    /\ pc = "highlights"
    /\ highlightMatches' = HighlightMatches(matches)
    /\ pc' = "trends"
    /\ stages' = Append(stages, "highlights")
    /\ UNCHANGED <<history, recap, insights>>
    /\ UNCHANGED <<matches, masteries, masteryMap, overview, championStats,
                   performanceMetrics, temporalTrends, streaks,
                   roleDistribution, result, kdaArgs, kdaValue>>

TrendStage ==
    /\ pc = "trends"
    /\ temporalTrends' = calculateTemporalTrends(matches)
    /\ pc' = "streaks"
    /\ stages' = Append(stages, "trends")
    /\ UNCHANGED <<history, recap, insights>>
    /\ UNCHANGED <<matches, masteries, masteryMap, overview, championStats,
                   performanceMetrics, highlightMatches, streaks,
                   roleDistribution, result, kdaArgs, kdaValue>>

StreakStage ==
    /\ pc = "streaks"
    /\ streaks' = calculateStreaks(matches)
    /\ matches' = MatchesAfterStreaks(matches)
    /\ pc' = "roles"
    /\ stages' = Append(stages, "streaks")
    /\ UNCHANGED <<history, recap, insights>>
    /\ UNCHANGED <<masteries, masteryMap, overview, championStats,
                   performanceMetrics, highlightMatches, temporalTrends,
                   roleDistribution, result, kdaArgs, kdaValue>>

RoleStage ==
    /\ pc = "roles"
    /\ roleDistribution' = calculateRoleDistribution(matches)
    /\ pc' = "return"
    /\ stages' = Append(stages, "roles")
    /\ UNCHANGED <<history, recap, insights>>
    /\ UNCHANGED <<matches, masteries, masteryMap, overview, championStats,
                   performanceMetrics, highlightMatches, temporalTrends,
                   streaks, result, kdaArgs, kdaValue>>

Return ==
    /\ pc = "return"
    /\ result' = [overview           |-> overview,
                  championStats      |-> championStats,
                  temporalTrends     |-> temporalTrends,
                  performanceMetrics |-> performanceMetrics,
                  streaks            |-> streaks,
                  roleDistribution   |-> roleDistribution,
                  highlightMatches   |-> highlightMatches]
    /\ pc' = "done"
    /\ UNCHANGED <<history, recap, insights>>
    /\ UNCHANGED <<matches, masteries, stages, masteryMap, overview, championStats,
                   performanceMetrics, highlightMatches, temporalTrends,
                   streaks, roleDistribution, kdaArgs, kdaValue>>

Next ==
    \/ ReturnEmpty
    \/ MasteryLookup
    \/ OverviewStage
    \/ ChampionStage
    \/ PerformanceStage
    \/ HighlightStage
    \/ TrendStage
    \/ StreakStage
    \/ RoleStage
    \/ Return

\* a direct call of calculateKDA
CallCalculateKDA ==
    /\ pc = "idle"
    /\ kdaValue' = calculateKDA(kdaArgs[1], kdaArgs[2], kdaArgs[3])
    /\ pc' = "returned"
    /\ UNCHANGED <<history, recap, insights>>
    /\ UNCHANGED <<matches, masteries, stages, masteryMap, overview, championStats,
                   performanceMetrics, highlightMatches, temporalTrends,
                   streaks, roleDistribution, result, kdaArgs>>

NextKDA == CallCalculateKDA

(***************************************************************************)
(* The same call with its seven reducer blocks run in any order: each      *)
(* block reads and writes the variables that its code reads and writes     *)
(***************************************************************************)
ReducerStages ==
    {"overview", "champions", "performance", "highlights", "trends",
     "streaks", "roles"}

\* the blocks that have run
Ran == {stages[i] : i \in 1..Len(stages)}

\* the return statement follows the last block
AfterReducer ==
    IF Len(stages) + 1 = Cardinality(ReducerStages) THEN "return" ELSE "reducers"

\* the empty-input guard and the mastery lookup precede the reducer blocks
EnterReducers ==
    /\ pc = "call"
    /\ Len(matches) # 0
    /\ masteryMap' = BuildMasteryMap(masteries)
    /\ pc' = "reducers"
    /\ UNCHANGED <<history, recap, insights>>
    /\ UNCHANGED <<matches, masteries, stages, overview, championStats,
                   performanceMetrics, highlightMatches, temporalTrends,
                   streaks, roleDistribution, result, kdaArgs, kdaValue>>

\* lines 194-209: reads matches
OverviewAny ==
    /\ pc = "reducers"
    /\ "overview" \notin Ran
    /\ overview' = Overview(matches)
    /\ stages' = Append(stages, "overview")
    /\ pc' = AfterReducer
    /\ UNCHANGED <<history, recap, insights>>
    /\ UNCHANGED <<matches, masteries, masteryMap, championStats,
                   performanceMetrics, highlightMatches, temporalTrends,
                   streaks, roleDistribution, result, kdaArgs, kdaValue>>

\* lines 211-267: reads matches and masteryMap
ChampionAny ==
    /\ pc = "reducers"
    /\ "champions" \notin Ran
    /\ championStats' = ChampionStats(matches, masteryMap)
    /\ stages' = Append(stages, "champions")
    /\ pc' = AfterReducer
    /\ UNCHANGED <<history, recap, insights>>
    /\ UNCHANGED <<matches, masteries, masteryMap, overview,
                   performanceMetrics, highlightMatches, temporalTrends,
                   streaks, roleDistribution, result, kdaArgs, kdaValue>>

\* lines 269-281: reads matches and totalGames, the const that the overview
\* block declares at line 195; before that declaration has run the read
\* yields undefined in the variant, and throws a ReferenceError in the code
PerformanceAnyHoisted ==
    /\ pc = "reducers"
    /\ "performance" \notin Ran
    /\ performanceMetrics' =
           PerformanceMetrics(matches,
                              IF "overview" \in Ran
                              THEN Num(overview.totalGames) ELSE <<0, 0>>)
    /\ stages' = Append(stages, "performance")
    /\ pc' = AfterReducer
    /\ UNCHANGED <<history, recap, insights>>
    /\ UNCHANGED <<matches, masteries, masteryMap, overview, championStats,
                   highlightMatches, temporalTrends, streaks,
                   roleDistribution, result, kdaArgs, kdaValue>>

PerformanceAny ==
    /\ pc = "reducers"
    /\ "performance" \notin Ran
    /\ \/ /\ "overview" \in Ran
          /\ performanceMetrics' =
                 PerformanceMetrics(matches, Num(overview.totalGames))
          /\ stages' = Append(stages, "performance")
          /\ pc' = AfterReducer
       \/ /\ "overview" \notin Ran
          /\ pc' = "threw"
          /\ UNCHANGED <<performanceMetrics, stages>>
    /\ UNCHANGED <<history, recap, insights>>
    /\ UNCHANGED <<matches, masteries, masteryMap, overview, championStats,
                   highlightMatches, temporalTrends, streaks,
                   roleDistribution, result, kdaArgs, kdaValue>>

\* lines 283-323: reads matches
HighlightAny ==
    /\ pc = "reducers"
    /\ "highlights" \notin Ran
    /\ highlightMatches' = HighlightMatches(matches)
    /\ stages' = Append(stages, "highlights")
    /\ pc' = AfterReducer
    /\ UNCHANGED <<history, recap, insights>>
    /\ UNCHANGED <<matches, masteries, masteryMap, overview, championStats,
                   performanceMetrics, temporalTrends, streaks,
                   roleDistribution, result, kdaArgs, kdaValue>>

\* line 326: reads matches
TrendAny ==
    /\ pc = "reducers"
    /\ "trends" \notin Ran
    /\ temporalTrends' = calculateTemporalTrends(matches)
    /\ stages' = Append(stages, "trends")
    /\ pc' = AfterReducer
    /\ UNCHANGED <<history, recap, insights>>
    /\ UNCHANGED <<matches, masteries, masteryMap, overview, championStats,
                   performanceMetrics, highlightMatches, streaks,
                   roleDistribution, result, kdaArgs, kdaValue>>

\* line 329: reads matches
StreakAny ==
    /\ pc = "reducers"
    /\ "streaks" \notin Ran
    /\ streaks' = calculateStreaks(matches)
    /\ matches' = MatchesAfterStreaks(matches)
    /\ stages' = Append(stages, "streaks")
    /\ pc' = AfterReducer
    /\ UNCHANGED <<history, recap, insights>>
    /\ UNCHANGED <<masteries, masteryMap, overview, championStats,
                   performanceMetrics, highlightMatches, temporalTrends,
                   roleDistribution, result, kdaArgs, kdaValue>>

\* line 330: reads matches
RoleAny ==
    /\ pc = "reducers"
    /\ "roles" \notin Ran
    /\ roleDistribution' = calculateRoleDistribution(matches)
    /\ stages' = Append(stages, "roles")
    /\ pc' = AfterReducer
    /\ UNCHANGED <<history, recap, insights>>
    /\ UNCHANGED <<matches, masteries, masteryMap, overview, championStats,
                   performanceMetrics, highlightMatches, temporalTrends,
                   streaks, result, kdaArgs, kdaValue>>

NextAnyOrder ==
    \/ ReturnEmpty
    \/ EnterReducers
    \/ OverviewAny
    \/ ChampionAny
    \/ PerformanceAny
    \/ HighlightAny
    \/ TrendAny
    \/ StreakAny
    \/ RoleAny
    \/ Return

(***************************************************************************)
(* Inputs.  Every specification starts a call on a match sequence drawn    *)
(* from a pool that varies the fields its stages read; the match id is the *)
(* position in the input (upstream delivers no match twice).               *)
(***************************************************************************)
MaxMatches == 4

MaxHighlightMatches == 3

MaxStreakMatches == 4

MaxTrendMatches == 6

MaxStat == 9

MaxPerfMatches == 3

MaxBucketMatches == 4

MaxRoleMatches == 4

MaxOrderMatches == 2

MaxMonthGames == 5

MaxPermMatches == 3

ChampionIds == {1, 2, 3}

\* ids 1 and 3 carry the same display name
ChampionName(id) == IF id = 2 THEN "Olaf" ELSE "Annie"

\* 2024-01-10, 2024-01-11, 2024-01-12, 2024-01-13 at 00:00, in hours
StreakTimes == {473568, 473592, 473616, 473640}

\* 2024-01-10 and 2024-02-05 at 00:00, in hours
TrendTimes == {473568, 474192}

\* wins and losses on three champions; a win is a game without deaths
GeneralPool ==
    {MatchDetails(0, 473568, 1800, c, ChampionName(c), c,
                  IF w THEN 0 ELSE 2, 1, w, 20, 9000, 6000, 150, "TOP") :
        c \in ChampionIds, w \in BOOLEAN}

\* equal and different values of the four highlight metrics, zero included
HighlightPool ==
    {MatchDetails(0, 473568, dur, 1, ChampionName(1), kda[1], kda[2], kda[3],
                  TRUE, 20, dmg, 6000, 150, "TOP") :
        kda \in {<<0, 0, 0>>, <<1, 1, 1>>, <<2, 1, 0>>},
        dur \in {0, 1500}, dmg \in {0, 900}}

\* wins and losses at equal and different creation times
StreakPool ==
    {MatchDetails(0, t, 1800, 1, ChampionName(1), 1, 1, 1, w, 20, 9000, 6000,
                  150, "TOP") :
        t \in StreakTimes, w \in BOOLEAN}

\* wins and losses in two calendar months
TrendPool ==
    {MatchDetails(0, t, 1800, 1, ChampionName(1), 1, 1, 1, w, 20, 9000, 6000,
                  150, "TOP") :
        t \in TrendTimes, w \in BOOLEAN}

\* 2023-12-31 (a Sunday), 2024-01-07 (a Sunday), 2024-01-20 and 2024-02-05
\* at 00:00, in hours
BucketTimes == {473328, 473496, 473808, 474192}

\* wins and losses in three months and four weeks of two years
BucketPool ==
    {MatchDetails(0, t, 1800, 1, ChampionName(1), 1, 1, 1, w, 20, 9000, 6000,
                  150, "TOP") :
        t \in BucketTimes, w \in BOOLEAN}

\* a match record whose participant has no role field
WithoutRole(match) ==
    [match EXCEPT !.participant =
        [f \in (DOMAIN @) \ {"role"} |-> @[f]]]

\* role labels: empty, already UNKNOWN, ordinary, names of inherited
\* properties, and no label at all
RolePool ==
    {MatchDetails(0, 473568, 1800, 1, ChampionName(1), 1, 1, 1, TRUE, 20, 9000,
                  6000, 150, r) :
        r \in {"", "UNKNOWN", "TOP", "constructor", "__proto__"}}
    \cup {WithoutRole(MatchDetails(0, 473568, 1800, 1, ChampionName(1), 1, 1,
                                   1, TRUE, 20, 9000, 6000, 150, ""))}

\* a win on one champion and a loss on another
OrderPool ==
    {MatchDetails(0, 473568, 1800, c, ChampionName(c), c, 1, 1, c = 1, 20, 9000,
                  6000, 150, "TOP") :
        c \in {1, 2}}

\* 2024-01-10, 2024-02-05 and 2024-03-05 at 00:00, in hours
MonthTimes == <<473568, 474192, 474888>>

\* the games a month can have: none, one fewer than the significance
\* threshold of line 396, and the threshold up to the bound
MonthGames == {0, 4} \cup (5..MaxMonthGames)

\* g matches created at t, the first w of them won
MonthBlock(t, g, w) ==
    [i \in 1..g |->
        MatchDetails(0, t, 1800, 1, ChampionName(1), 1, 1, 1, i <= w, 20, 9000,
                     6000, 150, "TOP")]

\* the matches of March, then January, then February
MonthInputs ==
    {MonthBlock(MonthTimes[3], g[3], w[3]) \o MonthBlock(MonthTimes[1], g[1], w[1])
         \o MonthBlock(MonthTimes[2], g[2], w[2]) :
        g \in [1..3 -> MonthGames],
        w \in [1..3 -> 0..MaxMonthGames]}

\* two champions, wins and losses, in January and February 2024; kills and
\* assists differ with the champion (their sum does not), duration and
\* damage with the month
PermPool ==
    {MatchDetails(0, t, IF t = 473496 THEN 1500 ELSE 1800, c, ChampionName(c),
                  c, IF w THEN 0 ELSE 2, 3 - c, w, 20 + c,
                  IF t = 473496 THEN 9000 ELSE 12000, 6000, 150,
                  IF c = 1 THEN "TOP" ELSE "") :
        t \in {473496, 474192}, c \in {1, 2}, w \in BOOLEAN}

\* durations of zero, ten and thirty minutes with three stat profiles
\* <<damage, gold, minions, vision>>
PerfPool ==
    {MatchDetails(0, 473568, dur, 1, ChampionName(1), 1, 1, 1, TRUE, st[4],
                  st[1], st[2], st[3], "TOP") :
        dur \in {0, 600, 1800},
        st \in {<<9000, 6000, 150, 20>>, <<3000, 2000, 40, 35>>,
                <<0, 0, 0, 0>>}}

\* no mastery, a mastery of a played champion, masteries with an unplayed one
MasteryChoices ==
    {<<>>,
     <<EnrichedMastery(1, 5, 30000)>>,
     <<EnrichedMastery(2, 7, 80000), EnrichedMastery(9, 1, 100)>>}

\* the input array: the drawn records, each with its own match id
Stamp(f) == [i \in 1..Len(f) |-> [f[i] EXCEPT !.matchId = i]]

InitCall(pool, maxLen, masteryChoices) ==
    /\ \E n \in 0..maxLen : \E f \in [1..n -> pool] : matches = Stamp(f)
    /\ masteries \in masteryChoices
    /\ pc = "call"
    /\ masteryMap = Unset
    /\ overview = Unset
    /\ championStats = Unset
    /\ performanceMetrics = Unset
    /\ highlightMatches = Unset
    /\ temporalTrends = Unset
    /\ streaks = Unset
    /\ roleDistribution = Unset
    /\ result = Unset
    /\ stages = <<>>
    /\ kdaArgs = Unset
    /\ kdaValue = Unset
    /\ history = Unset
    /\ recap = Unset
    /\ insights = Unset

Init == InitCall(GeneralPool, MaxMatches, MasteryChoices)

InitHighlight == InitCall(HighlightPool, MaxHighlightMatches, {<<>>})

InitStreak == InitCall(StreakPool, MaxStreakMatches, {<<>>})

InitTrend == InitCall(TrendPool, MaxTrendMatches, {<<>>})

InitPerf == InitCall(PerfPool, MaxPerfMatches, {<<>>})

InitBuckets == InitCall(BucketPool, MaxBucketMatches, {<<>>})

InitRole == InitCall(RolePool, MaxRoleMatches, {<<>>})

InitAnyOrder == InitCall(OrderPool, MaxOrderMatches, {<<>>})

InitMonths ==
    /\ \E ms \in MonthInputs : matches = Stamp(ms)
    /\ masteries = <<>>
    /\ pc = "call"
    /\ masteryMap = Unset
    /\ overview = Unset
    /\ championStats = Unset
    /\ performanceMetrics = Unset
    /\ highlightMatches = Unset
    /\ temporalTrends = Unset
    /\ streaks = Unset
    /\ roleDistribution = Unset
    /\ result = Unset
    /\ stages = <<>>
    /\ kdaArgs = Unset
    /\ kdaValue = Unset
    /\ history = Unset
    /\ recap = Unset
    /\ insights = Unset

InitPerm == InitCall(PermPool, MaxPermMatches, {<<>>})

InitKDA ==
    /\ kdaArgs \in (0..MaxStat) \X (0..MaxStat) \X (0..MaxStat)
    /\ kdaValue = Unset
    /\ pc = "idle"
    /\ matches = <<>>
    /\ masteries = <<>>
    /\ masteryMap = Unset
    /\ overview = Unset
    /\ championStats = Unset
    /\ performanceMetrics = Unset
    /\ highlightMatches = Unset
    /\ temporalTrends = Unset
    /\ streaks = Unset
    /\ roleDistribution = Unset
    /\ result = Unset
    /\ stages = <<>>
    /\ history = Unset
    /\ recap = Unset
    /\ insights = Unset

Spec == Init /\ [][Next]_vars

SpecHighlight == InitHighlight /\ [][Next]_vars

SpecStreak == InitStreak /\ [][Next]_vars

SpecTrend == InitTrend /\ [][Next]_vars

SpecPerf == InitPerf /\ [][Next]_vars

SpecBuckets == InitBuckets /\ [][Next]_vars

SpecRole == InitRole /\ [][Next]_vars

SpecAnyOrder == InitAnyOrder /\ [][NextAnyOrder]_vars

SpecMonths == InitMonths /\ [][Next]_vars

SpecPerm == InitPerm /\ [][Next]_vars

SpecKDA == InitKDA /\ [][NextKDA]_vars

(***************************************************************************)
(* getFullYearMatches (src/lib/champion-data.ts): the batch loop.  One     *)
(* action is one iteration of the while loop, chosen by what getMatchIds   *)
(* answers; the matches of a batch are fetched inside the iteration.       *)
(***************************************************************************)
\* the other calls are not running
NoAggregateCall ==
    /\ matches = <<>>
    /\ masteries = <<>>
    /\ pc = "idle"
    /\ masteryMap = Unset
    /\ overview = Unset
    /\ championStats = Unset
    /\ performanceMetrics = Unset
    /\ highlightMatches = Unset
    /\ temporalTrends = Unset
    /\ streaks = Unset
    /\ roleDistribution = Unset
    /\ result = Unset
    /\ stages = <<>>
    /\ kdaArgs = Unset
    /\ kdaValue = Unset

aggregateVars == <<matches, masteries, pc, masteryMap, overview, championStats,
                   performanceMetrics, highlightMatches, temporalTrends,
                   streaks, roleDistribution, result, stages, kdaArgs, kdaValue>>

BATCH_SIZE == 20

\* calls of getMatchIds the upstream answers before the model stops
MaxRequests == 4

\* allMatches is kept as its length and error is the error last caught; the
\* counters that are only logged (totalMatchIdsFetched, failedMatches) are
\* left out
InitHistory ==
    /\ NoAggregateCall
    /\ history = [pc             |-> "loop",
                  start          |-> 0,
                  hasMoreMatches |-> TRUE,
                  allMatches     |-> 0,
                  error          |-> "none",
                  requests       |-> 0]
    /\ recap = Unset
    /\ insights = Unset

\* the loop condition and the request of the batch at history.start
RequestBatch ==
    /\ history.pc = "loop"
    /\ history.hasMoreMatches
    /\ history.requests < MaxRequests

\* getMatchIds answers []: hasMoreMatches = false; break
BatchEmpty ==
    /\ RequestBatch
    /\ history' = [history EXCEPT !.requests = @ + 1,
                                  !.hasMoreMatches = FALSE,
                                  !.pc = "after"]
    /\ UNCHANGED <<aggregateVars, recap, insights>>

\* getMatchIds answers n < BATCH_SIZE ids: the last batch.  In the inner
\* loop each match is pushed when its details arrive (at once or on the
\* retry after a rate limit) and it is a ranked game, and is skipped
\* otherwise; no error leaves the inner loop
BatchShort ==
    /\ RequestBatch
    /\ \E n \in 1..(BATCH_SIZE - 1) : \E kept \in 0..n :
          history' = [history EXCEPT !.requests = @ + 1,
                                     !.allMatches = @ + kept,
                                     !.hasMoreMatches = FALSE,
                                     !.pc = "after"]
    /\ UNCHANGED <<aggregateVars, recap, insights>>

\* getMatchIds answers BATCH_SIZE ids: start += BATCH_SIZE and loop again
BatchFull ==
    /\ RequestBatch
    /\ \E kept \in 0..BATCH_SIZE :
          history' = [history EXCEPT !.requests = @ + 1,
                                     !.allMatches = @ + kept,
                                     !.start = @ + BATCH_SIZE]
    /\ UNCHANGED <<aggregateVars, recap, insights>>

\* getMatchIds throws NotFoundError (404): break
BatchNotFound ==
    /\ RequestBatch
    /\ history' = [history EXCEPT !.requests = @ + 1,
                                  !.error = "NotFoundError",
                                  !.pc = "after"]
    /\ UNCHANGED <<aggregateVars, recap, insights>>

\* getMatchIds throws RateLimitError (429): sleep, then `continue`
BatchRateLimited ==
    /\ RequestBatch
    /\ history' = [history EXCEPT !.requests = @ + 1,
                                  !.error = "RateLimitError"]
    /\ UNCHANGED <<aggregateVars, recap, insights>>

\* getMatchIds throws InvalidApiKeyError (403) or NetworkError: rethrown
BatchFatal ==
    /\ RequestBatch
    /\ \E e \in {"InvalidApiKeyError", "NetworkError"} :
          history' = [history EXCEPT !.requests = @ + 1,
                                     !.pc = "threw",
                                     !.error = e]
    /\ UNCHANGED <<aggregateVars, recap, insights>>

\* getMatchIds throws any other error (a MatchHistoryError of another
\* status): logged, and the loop goes round
BatchOtherError ==
    /\ RequestBatch
    /\ history' = [history EXCEPT !.requests = @ + 1,
                                  !.error = "MatchHistoryError"]
    /\ UNCHANGED <<aggregateVars, recap, insights>>

\* after the loop: NotFoundError when nothing was collected, else return
FinishHistory ==
    /\ history.pc = "after"
    /\ history' = IF history.allMatches = 0
                  THEN [history EXCEPT !.pc = "threw", !.error = "NotFoundError"]
                  ELSE [history EXCEPT !.pc = "returned"]
    /\ UNCHANGED <<aggregateVars, recap, insights>>

NextHistory ==
    \/ BatchEmpty
    \/ BatchShort
    \/ BatchFull
    \/ BatchNotFound
    \/ BatchRateLimited
    \/ BatchFatal
    \/ BatchOtherError
    \/ FinishHistory

SpecHistory == InitHistory /\ [][NextHistory]_vars

(***************************************************************************)
(* The recap cache (the DynamoDB service whose source is in                *)
(* src/lib/dynamodb.test.ts) and generateRecap (src/app/actions.ts).       *)
(* The table holds the one item of the player and year asked for.  Every   *)
(* request sent to DynamoDB either succeeds or fails; which requests of a  *)
(* call fail is drawn per call.  Time is in epoch seconds.                 *)
(***************************************************************************)
TTL_DURATION == 365 * 24 * 60 * 60

\* generateRecap calls, and steps of the clock, before the model stops
MaxCalls == 2

MaxTicks == 3

\* 2024-01-01T00:00:00Z, the time the model starts at
StartTime == 1704067200

\* which of the requests of one service call fail
DynamoFaults == [describe : BOOLEAN, create : BOOLEAN, send : BOOLEAN]

NoTable == [exists |-> FALSE, item |-> Null]

\* process.env: the two AWS keys, and ENABLE_CACHING !== 'false'
Environments == [keys : BOOLEAN, caching : BOOLEAN]

isDynamoDBConfigured(env) == env.keys /\ env.caching

\* getDynamoClient throws when a key is missing; getBaseClient calls it
ClientThrows(env) == ~env.keys

\* ensureTableExists: DescribeTable, and CreateTable when the table is not
\* found; any other error is rethrown
EnsureTableExists(env, table, f) ==
    IF ClientThrows(env) \/ f.describe THEN [threw |-> TRUE, table |-> table]
    ELSE IF table.exists THEN [threw |-> FALSE, table |-> table]
    ELSE IF f.create THEN [threw |-> TRUE, table |-> table]
    ELSE [threw |-> FALSE, table |-> [exists |-> TRUE, item |-> Null]]

\* the try block of saveRecap
SaveRecapBody(env, table, now, data, f) ==
    LET ensured == EnsureTableExists(env, table, f)
    IN  IF ensured.threw \/ ClientThrows(env) \/ f.send
        THEN [threw |-> TRUE, table |-> ensured.table]
        ELSE [threw |-> FALSE,
              table |-> [exists |-> TRUE,
                         item   |-> [generatedAt |-> now,
                                     analytics   |-> data.analytics,
                                     insights    |-> data.insights,
                                     ttl         |-> now + TTL_DURATION]]]

\* saveRecap: the catch logs and does not rethrow
saveRecap(env, table, now, data, f) ==
    LET body == SaveRecapBody(env, table, now, data, f)
    IN  IF body.threw
        THEN [threw |-> FALSE, value |-> Undefined, table |-> body.table,
              logged |-> {"Failed to save recap to DynamoDB"}]
        ELSE [threw |-> FALSE, value |-> Undefined, table |-> body.table,
              logged |-> {}]

\* item.ttl && item.ttl < now
Expired(item, now) == item.ttl # 0 /\ item.ttl < now

\* the try block of getRecap
GetRecapBody(env, table, now, f) ==
    LET ensured == EnsureTableExists(env, table, f)
        item == ensured.table.item
    IN  IF ensured.threw \/ ClientThrows(env) \/ f.send
        THEN [threw |-> TRUE, value |-> Null, table |-> ensured.table]
        ELSE IF item = Null
        THEN [threw |-> FALSE, value |-> Null, table |-> ensured.table]
        ELSE IF Expired(item, now)
        THEN [threw |-> FALSE, value |-> Null, table |-> ensured.table]
        ELSE [threw |-> FALSE,
              value |-> [analytics |-> item.analytics,
                         insights  |-> item.insights],
              table |-> ensured.table]

\* getRecap without its catch
getRecapUncaught(env, table, now, f) ==
    LET body == GetRecapBody(env, table, now, f)
    IN  [threw |-> body.threw, value |-> body.value, table |-> body.table,
         logged |-> {}]

\* getRecap: the catch logs and returns null
getRecap(env, table, now, f) ==
    LET body == GetRecapBody(env, table, now, f)
    IN  IF body.threw
        THEN [threw |-> FALSE, value |-> Null, table |-> body.table,
              logged |-> {"Failed to retrieve recap from DynamoDB"}]
        ELSE [threw |-> FALSE, value |-> body.value, table |-> body.table,
              logged |-> {}]

\* the try block of deleteRecap: no ensureTableExists, the request fails
\* when the table does not exist
DeleteRecapBody(env, table, f) ==
    IF ClientThrows(env) \/ f.send \/ ~table.exists
    THEN [threw |-> TRUE, table |-> table]
    ELSE [threw |-> FALSE, table |-> [exists |-> TRUE, item |-> Null]]

\* deleteRecap: the catch logs and does not rethrow
deleteRecap(env, table, f) ==
    LET body == DeleteRecapBody(env, table, f)
    IN  IF body.threw
        THEN [threw |-> FALSE, value |-> Undefined, table |-> body.table,
              logged |-> {"Failed to delete recap from DynamoDB"}]
        ELSE [threw |-> FALSE, value |-> Undefined, table |-> body.table,
              logged |-> {}]

\* riotId.trim() === ''
IsBlank(riotId) == \A i \in 1..Len(riotId) : riotId[i] = " "

\* parseRiotId (src/lib/riot-api.ts): null unless split('#') has two parts
\* (the parts of the ids drawn have no blanks for trim() to remove)
parseRiotId(riotId) ==
    LET hashes == {i \in 1..Len(riotId) : riotId[i] = "#"}
    IN  IF Cardinality(hashes) # 1 THEN Null
        ELSE LET h == CHOOSE i \in hashes : TRUE
             IN  [gameName |-> SubSeq(riotId, 1, h - 1),
                  tagLine  |-> SubSeq(riotId, h + 1, Len(riotId))]

\* the form field: missing, blank, without and with one '#', with two
RiotIds ==
    {<<>>, <<" ">>, <<"P">>, <<"P", "#", "N">>, <<"P", "#", "N", "#">>}

\* the RecapResponse of a failure, and of a success
Failure(error) == [success |-> FALSE, data |-> Null, error |-> error]

Success(riotId, cached) ==
    [success |-> TRUE,
     data    |-> [riotId    |-> riotId,
                  analytics |-> cached.analytics,
                  insights  |-> cached.insights],
     error   |-> Null]

\* log holds the messages written to the console since the call started,
\* each with the service the logged error came from; dynamo is the last
\* call of the cache service and what it gave
InitRecap ==
    /\ NoAggregateCall
    /\ history = Unset
    /\ insights = Unset
    /\ \E env \in Environments : \E exists \in BOOLEAN :
          recap = [pc       |-> "idle",
                   env      |-> env,
                   now      |-> StartTime,
                   ticks    |-> 0,
                   calls    |-> 0,
                   table    |-> [exists |-> exists, item |-> Null],
                   riotId   |-> <<>>,
                   log      |-> {},
                   dynamo   |-> [op |-> "none", threw |-> FALSE, value |-> Null],
                   response |-> Null]

Logged(message, origin) == [message |-> message, origin |-> origin]

FromDynamo(messages) == {Logged(m, "dynamodb") : m \in messages}

Idle == recap.pc \in {"idle", "returned"}

\* generateRecap with a missing or blank riotId, or one parseRiotId rejects
GenerateRecapInvalid ==
    /\ Idle
    /\ recap.calls < MaxCalls
    /\ \E riotId \in RiotIds :
          /\ IsBlank(riotId) \/ parseRiotId(riotId) = Null
          /\ recap' = [recap EXCEPT
                 !.calls = @ + 1,
                 !.riotId = riotId,
                 !.log = {},
                 !.pc = "returned",
                 !.response = IF IsBlank(riotId)
                              THEN Failure("Please enter a valid Riot ID")
                              ELSE Failure("Invalid Riot ID format")]
    /\ UNCHANGED <<aggregateVars, history, insights>>

\* generateRecap with a well-formed riotId: on to the account lookup
GenerateRecapStart ==
    /\ Idle
    /\ recap.calls < MaxCalls
    /\ \E riotId \in RiotIds :
          /\ ~IsBlank(riotId)
          /\ parseRiotId(riotId) # Null
          /\ recap' = [recap EXCEPT !.calls = @ + 1,
                                    !.riotId = riotId,
                                    !.log = {},
                                    !.response = Null,
                                    !.pc = "account"]
    /\ UNCHANGED <<aggregateVars, history, insights>>

\* Step 2: getAccountByRiotId; Step 2.5 is entered only when configured
GetAccount ==
    /\ recap.pc = "account"
    /\ \E ok \in BOOLEAN :
          recap' = IF ok
                   THEN [recap EXCEPT !.pc = IF isDynamoDBConfigured(recap.env)
                                             THEN "cache" ELSE "fetch"]
                   ELSE [recap EXCEPT
                            !.pc = "returned",
                            !.log = @ \cup {Logged("[Recap] Error fetching account", "riot")},
                            !.response = Failure("formatErrorMessage")]
    /\ UNCHANGED <<aggregateVars, history, insights>>

\* Step 2.5: a cached recap is returned; without one, or when the read
\* threw, the pipeline goes on
CheckCache ==
    /\ recap.pc = "cache"
    /\ \E f \in DynamoFaults :
          LET got == getRecap(recap.env, recap.table, recap.now, f)
              seen == [recap EXCEPT
                          !.table = got.table,
                          !.dynamo = [op |-> "getRecap", threw |-> got.threw,
                                      value |-> got.value],
                          !.log = @ \cup FromDynamo(got.logged)]
          IN  recap' =
                  IF got.threw
                  THEN [seen EXCEPT
                           !.log = @ \cup FromDynamo({"[Recap] Cache check failed"}),
                           !.pc = "fetch"]
                  ELSE IF got.value # Null
                  THEN [seen EXCEPT
                           !.pc = "returned",
                           !.response = Success(recap.riotId, got.value)]
                  ELSE [seen EXCEPT !.pc = "fetch"]
    /\ UNCHANGED <<aggregateVars, history, insights>>

\* Steps 3 and 4: initializeChampionData may fail without effect; a failure
\* of getFullYearMatches or of the mastery request ends the call
FetchHistory ==
    /\ recap.pc = "fetch"
    /\ \E champions \in BOOLEAN : \E ok \in BOOLEAN :
          LET warned == IF champions THEN recap.log
                        ELSE recap.log \cup
                             {Logged("[Recap] Failed to initialize champion data", "riot")}
          IN  recap' = IF ok
                       THEN [recap EXCEPT !.log = warned, !.pc = "aggregate"]
                       ELSE [recap EXCEPT
                                !.log = warned \cup
                                    {Logged("[Recap] Error fetching match history or masteries", "riot")},
                                !.pc = "returned",
                                !.response = Failure("formatMatchHistoryError")]
    /\ UNCHANGED <<aggregateVars, history, insights>>

\* Steps 5 and 6: enrichMasteries may fail without effect; a throw of
\* aggregateMatchData ends the call
AggregateAnalytics ==
    /\ recap.pc = "aggregate"
    /\ \E enriched \in BOOLEAN : \E ok \in BOOLEAN :
          LET warned == IF enriched THEN recap.log
                        ELSE recap.log \cup
                             {Logged("[Recap] Error enriching masteries", "riot")}
          IN  recap' = IF ok
                       THEN [recap EXCEPT !.log = warned, !.pc = "insights"]
                       ELSE [recap EXCEPT
                                !.log = warned \cup
                                    {Logged("[Recap] Error aggregating analytics", "analytics")},
                                !.pc = "returned",
                                !.response = Failure("Failed to process match data")]
    /\ UNCHANGED <<aggregateVars, history, insights>>

\* Step 7: generateInsights; Step 8 is entered only when configured
GenerateInsights ==
    /\ recap.pc = "insights"
    /\ \E ok \in BOOLEAN :
          recap' = IF ok
                   THEN [recap EXCEPT !.pc = IF isDynamoDBConfigured(recap.env)
                                             THEN "save" ELSE "finish"]
                   ELSE [recap EXCEPT
                            !.log = @ \cup
                                {Logged("[Recap] Error generating AI insights", "bedrock")},
                            !.pc = "returned",
                            !.response = Failure("Failed to generate AI insights")]
    /\ UNCHANGED <<aggregateVars, history, insights>>

\* the analytics and insights of a call are named by the number of the call
Generated == [analytics |-> recap.calls, insights |-> recap.calls]

\* Step 8: saveRecap; a throw is logged and the call goes on
SaveCache ==
    /\ recap.pc = "save"
    /\ \E f \in DynamoFaults :
          LET saved == saveRecap(recap.env, recap.table, recap.now, Generated, f)
              seen == [recap EXCEPT
                          !.table = saved.table,
                          !.dynamo = [op |-> "saveRecap", threw |-> saved.threw,
                                      value |-> saved.value],
                          !.log = @ \cup FromDynamo(saved.logged)]
          IN  recap' =
                  IF saved.threw
                  THEN [seen EXCEPT
                           !.log = @ \cup FromDynamo({"[Recap] Failed to cache recap"}),
                           !.pc = "finish"]
                  ELSE [seen EXCEPT !.pc = "finish"]
    /\ UNCHANGED <<aggregateVars, history, insights>>

\* Steps 9 and 10: revalidatePath and the response; a throw of
\* revalidatePath reaches the catch-all
FinishRecap ==
    /\ recap.pc = "finish"
    /\ \E ok \in BOOLEAN :
          recap' = IF ok
                   THEN [recap EXCEPT
                            !.pc = "returned",
                            !.response = Success(recap.riotId, Generated)]
                   ELSE [recap EXCEPT
                            !.log = @ \cup
                                {Logged("[Recap] Unexpected error during recap generation", "next")},
                            !.pc = "returned",
                            !.response = Failure("formatErrorMessage")]
    /\ UNCHANGED <<aggregateVars, history, insights>>

\* a call of deleteRecap between two calls of generateRecap
CallDeleteRecap ==
    /\ Idle
    /\ \E f \in DynamoFaults :
          LET deleted == deleteRecap(recap.env, recap.table, f)
          IN  recap' = [recap EXCEPT
                           !.table = deleted.table,
                           !.dynamo = [op |-> "deleteRecap", threw |-> deleted.threw,
                                       value |-> deleted.value],
                           !.log = @ \cup FromDynamo(deleted.logged)]
    /\ UNCHANGED <<aggregateVars, history, insights>>

\* the clock moves on by a second or by the lifetime of an item
TimePasses ==
    /\ recap.ticks < MaxTicks
    /\ \E d \in {1, TTL_DURATION} :
          recap' = [recap EXCEPT !.ticks = @ + 1, !.now = @ + d]
    /\ UNCHANGED <<aggregateVars, history, insights>>

NextRecap ==
    \/ GenerateRecapInvalid
    \/ GenerateRecapStart
    \/ GetAccount
    \/ CheckCache
    \/ FetchHistory
    \/ AggregateAnalytics
    \/ GenerateInsights
    \/ SaveCache
    \/ FinishRecap
    \/ CallDeleteRecap
    \/ TimePasses

SpecRecap == InitRecap /\ [][NextRecap]_vars

(***************************************************************************)
(* generateFallbackInsights (src/unnamed/part_003).  A text built from a   *)
(* template is the sequence of its parts: Lit for a part written in the    *)
(* code, Val for the string of an interpolated value; '' is <<>>.  One     *)
(* action is the code up to the next loop test, a loop iteration, or the   *)
(* code from the last loop to the return.                                  *)
(***************************************************************************)
Lit(text) == [text |-> text]

Val(chars) == [chars |-> chars]

\* the length of a text is 0 exactly when every part of it is empty
IsEmptyText(t) ==
    \A i \in 1..Len(t) :
        IF "text" \in DOMAIN t[i] THEN t[i].text = "" ELSE t[i].chars = <<>>

\* s.padStart(digits, '0') for the fraction digits of toFixed
RECURSIVE PadZeros(_, _)
PadZeros(s, digits) == IF Len(s) >= digits THEN s ELSE PadZeros(<<"0">> \o s, digits)

Pow10(digits) == IF digits = 0 THEN 1 ELSE IF digits = 1 THEN 10 ELSE 100

\* Number.prototype.toFixed(digits), digits in 0..2: the nearest decimal,
\* the larger one of two equally near; NaN and the infinities by name
ToFixed(x, digits) ==
    IF IsNaN(x) THEN <<"N", "a", "N">>
    ELSE IF ~IsFinite(x)
    THEN (IF x[1] < 0 THEN <<"-">> ELSE <<>>)
             \o <<"I", "n", "f", "i", "n", "i", "t", "y">>
    ELSE LET scaled == (2 * Abs(x[1]) * Pow10(digits) + x[2]) \div (2 * x[2])
             whole  == ToDecimal(scaled \div Pow10(digits))
             digs   == PadZeros(ToDecimal(scaled % Pow10(digits)), digits)
         IN  (IF x[1] < 0 THEN <<"-">> ELSE <<>>)
                 \o whole
                 \o (IF digits = 0 THEN <<>> ELSE <<".">> \o digs)

\* x < y
JsLt(x, y) == JsGt(y, x)

\* championStats[0]?.championName || 'your favorite champion'
TopChamp(analytics) ==
    IF Len(analytics.championStats) = 0 THEN Lit("your favorite champion")
    ELSE IF analytics.championStats[1].championName = <<>>
    THEN Lit("your favorite champion")
    ELSE Val(analytics.championStats[1].championName)

\* championStats[0]?.games || 0
TopChampGames(analytics) ==
    IF Len(analytics.championStats) = 0 THEN 0
    ELSE analytics.championStats[1].games

\* championStats[0]?.winRate > limit
TopWinRateAbove(analytics, limit) ==
    /\ Len(analytics.championStats) > 0
    /\ JsGt(analytics.championStats[1].winRate, Num(limit))

\* push when the condition holds
PushIf(list, condition, text) == IF condition THEN Append(list, text) ELSE list

\* the five strength rules, in the order of the code
StrengthRules(analytics) ==
    LET winRate == analytics.overview.winRate
        kda     == analytics.overview.avgKDA
        streak  == analytics.streaks.longestWinStreak
        s1 == PushIf(<<>>, JsGt(winRate, Num(52)),
                     <<Lit("Strong "), Val(ToFixed(winRate, 1)),
                       Lit("% win rate shows consistent performance")>>)
        s2 == PushIf(s1, JsGt(kda, Num(3)),
                     <<Lit("Excellent "), Val(ToFixed(kda, 2)),
                       Lit(" KDA demonstrates good decision-making")>>)
        s3 == PushIf(s2, streak >= 5,
                     <<Lit("Impressive "), Val(ToDecimal(streak)),
                       Lit("-game win streak shows momentum")>>)
        s4 == PushIf(s3, JsGt(analytics.performanceMetrics.avgVisionScore, Num(40)),
                     <<Lit("Good vision control with strong ward placement")>>)
    IN  IF TopWinRateAbove(analytics, 55)
        THEN Append(s4, <<Lit("Dominant on "), TopChamp(analytics), Lit(" with "),
                          Val(ToFixed(analytics.championStats[1].winRate, 1)),
                          Lit("% win rate")>>)
        ELSE s4

\* the body of `while (strengths.length < 3)`, with its else branch missing
PadStrengthsNoElse(strengths, analytics) ==
    IF Len(strengths) = 0
    THEN Append(strengths, <<Lit("Consistent gameplay throughout the season")>>)
    ELSE IF Len(strengths) = 1
    THEN Append(strengths, <<Lit("Team-oriented playstyle")>>)
    ELSE strengths

\* the body of `while (strengths.length < 3)`
PadStrengths(strengths, analytics) ==
    IF Len(strengths) = 0
    THEN Append(strengths, <<Lit("Consistent gameplay throughout the season")>>)
    ELSE IF Len(strengths) = 1
    THEN Append(strengths, <<Lit("Team-oriented playstyle")>>)
    ELSE Append(strengths,
                <<Lit("Dedicated "), TopChamp(analytics), Lit(" player with "),
                  Val(ToDecimal(TopChampGames(analytics))), Lit(" games")>>)

\* the five weakness rules, in the order of the code
WeaknessRules(analytics) ==
    LET deaths == analytics.overview.avgDeaths
        cs     == analytics.performanceMetrics.avgCSPerMinute
        streak == analytics.streaks.longestLossStreak
        w1 == PushIf(<<>>, JsLt(analytics.overview.winRate, Num(48)),
                     <<Lit("Win rate below 50% indicates room for improvement")>>)
        w2 == PushIf(w1, JsGt(deaths, Num(6)),
                     <<Lit("High death average ("), Val(ToFixed(deaths, 1)),
                       Lit(") suggests positioning issues")>>)
        w3 == PushIf(w2, JsLt(analytics.performanceMetrics.avgVisionScore, Num(30)),
                     <<Lit("Low vision score - need more ward placement")>>)
        w4 == PushIf(w3, JsLt(cs, Num(5)),
                     <<Lit("CS/min of "), Val(ToFixed(cs, 1)),
                       Lit(" needs improvement")>>)
    IN  PushIf(w4, streak >= 5,
               <<Val(ToDecimal(streak)), Lit("-game loss streak shows tilt issues")>>)

\* the body of `while (weaknesses.length < 3)`
PadWeaknesses(weaknesses) ==
    IF Len(weaknesses) = 0
    THEN Append(weaknesses, <<Lit("Champion pool could be more diverse")>>)
    ELSE IF Len(weaknesses) = 1
    THEN Append(weaknesses, <<Lit("Objective control needs attention")>>)
    ELSE Append(weaknesses, <<Lit("Map awareness could be improved")>>)

ImprovementAreas(analytics) ==
    <<IF JsGt(analytics.overview.avgDeaths, Num(5))
      THEN <<Lit("Reduce deaths by improving positioning and map awareness")>>
      ELSE <<Lit("Optimize champion pool for current meta")>>,
      IF JsLt(analytics.performanceMetrics.avgVisionScore, Num(35))
      THEN <<Lit("Increase vision score through consistent warding")>>
      ELSE <<Lit("Improve CS efficiency in lane")>>,
      IF JsLt(analytics.overview.winRate, Num(50))
      THEN <<Lit("Focus on win conditions and objective control")>>
      ELSE <<Lit("Expand champion pool for flexibility")>>
    >>

CoachingTips(analytics) ==
    <<<<Lit("Focus on your best champions - "), TopChamp(analytics),
        Lit(" has been your most successful")>>,
      IF JsLt(analytics.performanceMetrics.avgVisionScore, Num(35))
      THEN <<Lit("Buy control wards every back and place them in high-traffic areas")>>
      ELSE <<Lit("Maintain your strong vision control to enable team plays")>>,
      IF JsGt(analytics.overview.avgDeaths, Num(5))
      THEN <<Lit("Review deaths in replays to identify positioning mistakes")>>
      ELSE <<Lit("Continue your disciplined playstyle with low deaths")>>,
      IF JsLt(analytics.performanceMetrics.avgCSPerMinute, Num(6))
      THEN <<Lit("Practice last-hitting in practice tool to improve CS/min")>>
      ELSE <<Lit("Your CS is solid - focus on translating farm leads into objectives")>>,
      IF analytics.streaks.longestLossStreak >= 4
      THEN <<Lit("Take breaks after 2 losses to avoid tilt and maintain mental")>>
      ELSE <<Lit("Keep your mental strong and focus on improvement over wins")>>
    >>

Roast(analytics) ==
    LET deaths == analytics.overview.avgDeaths
        streak == analytics.streaks.longestLossStreak
        cs     == analytics.performanceMetrics.avgCSPerMinute
    IN  IF JsGt(deaths, Num(7))
        THEN <<Val(ToFixed(deaths, 1)),
               Lit(" deaths per game? The enemy team should send you a thank-you card for all that gold.")>>
        ELSE IF streak >= 7
        THEN <<Lit("A "), Val(ToDecimal(streak)),
               Lit("-game loss streak? Even your keyboard wanted to uninstall.")>>
        ELSE IF JsLt(analytics.overview.winRate, Num(45))
        THEN <<Lit("With a "), Val(ToFixed(analytics.overview.winRate, 0)),
               Lit("% win rate, you're giving the enemy team more LP than your own team.")>>
        ELSE IF JsLt(cs, Num(4))
        THEN <<Val(ToFixed(cs, 1)),
               Lit(" CS/min? The minions are farming you at this point.")>>
        ELSE <<Lit("Your performance is decent, but we both know you can do better. Time to step it up!")>>

Boast(analytics) ==
    LET winRate == analytics.overview.winRate
        streak  == analytics.streaks.longestWinStreak
        kda     == analytics.overview.avgKDA
    IN  IF JsGt(winRate, Num(55))
        THEN <<Val(ToFixed(winRate, 0)),
               Lit("% win rate? You're not just climbing, you're taking the elevator!")>>
        ELSE IF streak >= 7
        THEN <<Lit("A "), Val(ToDecimal(streak)),
               Lit("-game win streak! You were absolutely unstoppable during that run.")>>
        ELSE IF JsGt(kda, Num(4))
        THEN <<Val(ToFixed(kda, 2)),
               Lit(" KDA is seriously impressive. You're playing like a pro!")>>
        ELSE IF TopWinRateAbove(analytics, 60)
        THEN <<Val(ToFixed(analytics.championStats[1].winRate, 0)),
               Lit("% win rate on "), TopChamp(analytics),
               Lit("? You've mastered that champion!")>>
        ELSE <<Val(ToDecimal(analytics.overview.totalGames)),
               Lit(" games shows real dedication. Keep grinding and the results will come!")>>

\* .filter(c => c.games >= 5 && c.games <= 20 && c.winRate > 55)
\* .slice(0, 2).map(c => c.championName)
HiddenGems(analytics) ==
    LET gems == SelectSeq(analytics.championStats,
                          LAMBDA c : c.games >= 5 /\ c.games <= 20
                                        /\ JsGt(c.winRate, Num(55)))
        two  == SubSeq(gems, 1, IF Len(gems) < 2 THEN Len(gems) ELSE 2)
    IN  [i \in 1..Len(two) |-> two[i].championName]

YearInReview(analytics) ==
    LET winRate == analytics.overview.winRate
        streak  == analytics.streaks.longestWinStreak
        best    == analytics.temporalTrends.bestMonth
    IN  <<Lit("This year you played "), Val(ToDecimal(analytics.overview.totalGames)),
          Lit(" ranked games over "), Val(ToFixed(analytics.overview.totalPlaytime, 0)),
          Lit(" hours, with "), TopChamp(analytics),
          Lit(" as your most-played champion ("),
          Val(ToDecimal(TopChampGames(analytics))), Lit(" games). Your "),
          Val(ToFixed(winRate, 1)), Lit("% win rate and "),
          Val(ToFixed(analytics.overview.avgKDA, 2)), Lit(" KDA demonstrate "),
          IF JsGt(winRate, Num(50)) THEN Lit("solid climbing potential")
                                    ELSE Lit("room for growth"),
          Lit(". ")>>
        \o (IF best # <<>>
            THEN <<Lit("Your best month was "), Val(best),
                   Lit(", where you really hit your stride.")>>
            ELSE <<Lit("")>>)
        \o <<Lit(" ")>>
        \o (IF streak >= 5
            THEN <<Lit("Your "), Val(ToDecimal(streak)),
                   Lit("-game win streak was a highlight of the season!")>>
            ELSE <<Lit("")>>)

\* the two emoji that end the quote are left out of the last part
ShareableQuote(analytics) ==
    <<Val(ToDecimal(analytics.overview.totalGames)), Lit(" ranked games, "),
      Val(ToFixed(analytics.overview.winRate, 0)), Lit("% WR, "),
      Val(ToFixed(analytics.overview.avgKDA, 1)), Lit(" KDA on "),
      TopChamp(analytics), Lit(". My Rift Rewind 2025! ")>>

\* slice(0, 3)
Slice3(list) == SubSeq(list, 1, IF Len(list) < 3 THEN Len(list) ELSE 3)

\* the returned AIInsights
FallbackInsights(analytics, strengths, weaknesses) ==
    [summary          |-> YearInReview(analytics),
     strengths        |-> Slice3(strengths),
     weaknesses       |-> Slice3(weaknesses),
     improvementAreas |-> ImprovementAreas(analytics),
     coachingTips     |-> CoachingTips(analytics),
     roast            |-> Roast(analytics),
     boast            |-> Boast(analytics),
     hiddenGems       |-> HiddenGems(analytics),
     yearInReview     |-> YearInReview(analytics),
     shareableQuote   |-> ShareableQuote(analytics)]

\* champions in the championStats of an input
MaxChampions == 2

\* a champion played often and badly, one played little and well, and one
\* whose name is missing
ChampionPool ==
    {[championName |-> <<"A", "h", "r", "i">>, games |-> 40, winRate |-> Num(45)],
     [championName |-> <<"J", "i", "n", "x">>, games |-> 8, winRate |-> Num(75)],
     [championName |-> <<>>, games |-> 3, winRate |-> Num(100)]}

ChampionLists ==
    UNION {[1..n -> ChampionPool] : n \in 0..MaxChampions}

\* PlayerAnalytics values on both sides of every threshold of the rules,
\* with the Infinity and NaN a per-minute metric can be, and the value
\* aggregateMatchData returns for no matches
FallbackPool ==
    {EmptyAnalytics} \cup
    {[EmptyAnalytics EXCEPT
         !.overview.totalGames = 120,
         !.overview.totalPlaytime = <<121, 2>>,
         !.overview.winRate = winRate,
         !.overview.avgKDA = kda,
         !.overview.avgDeaths = deaths,
         !.performanceMetrics.avgVisionScore = vision,
         !.performanceMetrics.avgCSPerMinute = cs,
         !.streaks.longestWinStreak = streak[1],
         !.streaks.longestLossStreak = streak[2],
         !.championStats = champions,
         !.temporalTrends.bestMonth = best] :
       winRate \in {<<85, 2>>, Num(50), Num(60)},
       kda \in {Num(2), <<9, 2>>},
       deaths \in {Num(4), <<15, 2>>},
       vision \in {Num(20), Num(45)},
       cs \in {Num(3), Num(7), <<1, 0>>, <<0, 0>>},
       streak \in {<<0, 0>>, <<7, 0>>, <<0, 7>>},
       champions \in ChampionLists,
       best \in {<<>>, <<"2", "0", "2", "4", "-", "0", "1">>}}

InitFallback ==
    /\ NoAggregateCall
    /\ history = Unset
    /\ recap = Unset
    /\ \E analytics \in FallbackPool :
          insights = [pc         |-> "call",
                      analytics  |-> analytics,
                      strengths  |-> <<>>,
                      weaknesses |-> <<>>,
                      returned   |-> Null]

\* from the entry to the first test of the strengths loop
StrengthStep ==
    /\ insights.pc = "call"
    /\ insights' = [insights EXCEPT !.strengths = StrengthRules(insights.analytics),
                                    !.pc = "strengths"]
    /\ UNCHANGED <<aggregateVars, history, recap>>

\* one iteration of the strengths loop
PadStrengthsStep ==
    /\ insights.pc = "strengths"
    /\ Len(insights.strengths) < 3
    /\ insights' = [insights EXCEPT
                       !.strengths = PadStrengths(insights.strengths,
                                                  insights.analytics)]
    /\ UNCHANGED <<aggregateVars, history, recap>>

\* from the end of the strengths loop to the first test of the next
WeaknessStep ==
    /\ insights.pc = "strengths"
    /\ Len(insights.strengths) >= 3
    /\ insights' = [insights EXCEPT !.weaknesses = WeaknessRules(insights.analytics),
                                    !.pc = "weaknesses"]
    /\ UNCHANGED <<aggregateVars, history, recap>>

\* one iteration of the weaknesses loop
PadWeaknessesStep ==
    /\ insights.pc = "weaknesses"
    /\ Len(insights.weaknesses) < 3
    /\ insights' = [insights EXCEPT !.weaknesses = PadWeaknesses(insights.weaknesses)]
    /\ UNCHANGED <<aggregateVars, history, recap>>

\* from the end of the weaknesses loop to the return
ReturnInsights ==
    /\ insights.pc = "weaknesses"
    /\ Len(insights.weaknesses) >= 3
    /\ insights' = [insights EXCEPT
                       !.returned = FallbackInsights(insights.analytics,
                                                     insights.strengths,
                                                     insights.weaknesses),
                       !.pc = "returned"]
    /\ UNCHANGED <<aggregateVars, history, recap>>

NextFallback ==
    \/ StrengthStep
    \/ PadStrengthsStep
    \/ WeaknessStep
    \/ PadWeaknessesStep
    \/ ReturnInsights

\* the call runs on while it has a step to take
SpecFallback == InitFallback /\ [][NextFallback]_vars /\ WF_vars(NextFallback)

(***************************************************************************)
(* Properties                                                              *)
(***************************************************************************)
\* the positions of the input
Positions == 1..Len(matches)

\* C1: for a non-empty input, overview.totalGames is the number of input
\* matches, overview.totalWins is the number of matches whose participant.win
\* is true, and totalWins + totalLosses = totalGames.
C1_OverviewCounts ==
    (pc = "done" /\ Len(matches) > 0) =>
        /\ result.overview.totalGames = Len(matches)
        /\ result.overview.totalWins =
               Cardinality({i \in Positions : matches[i].participant.win})
        /\ result.overview.totalWins + result.overview.totalLosses =
               result.overview.totalGames

\* a finished call on wins and losses
C1_Witness ==
    /\ pc = "done"
    /\ Len(matches) = 3
    /\ result.overview.totalWins = 2
    /\ result.overview.totalLosses = 1

\* C2: the games of the championStats entries sum to overview.totalGames,
\* for every input (every match is counted in exactly one champion group).
C2_ChampionGamesSum ==
    pc = "done" =>
        SumSeq([i \in 1..Len(result.championStats) |->
                    result.championStats[i].games]) =
            result.overview.totalGames

\* a finished call with two champion groups, one of them of several matches
C2_Witness ==
    /\ pc = "done"
    /\ Len(result.championStats) = 2
    /\ result.championStats[1].games = 2
    /\ result.championStats[2].games = 1

\* the position at which a champion id is first encountered in the input
FirstSeen(id) ==
    CHOOSE i \in Positions :
        /\ matches[i].participant.championId = id
        /\ \A j \in 1..(i - 1) : matches[j].participant.championId # id

\* C3: championStats is ordered by games descending, and champions with
\* equal games appear in the order in which their id was first encountered
\* in the input.
C3_ChampionOrder ==
    pc = "done" =>
        \A i, j \in 1..Len(result.championStats) :
            i < j =>
                LET a == result.championStats[i]
                    b == result.championStats[j]
                IN  \/ a.games > b.games
                    \/ /\ a.games = b.games
                       /\ FirstSeen(a.championId) < FirstSeen(b.championId)

\* a finished call in which the most played champion was encountered after
\* another one, and two champions tie on games
C3_Witness ==
    /\ pc = "done"
    /\ Len(result.championStats) = 3
    /\ result.championStats[1].games = 2
    /\ FirstSeen(result.championStats[1].championId) = 2
    /\ result.championStats[2].games = 1
    /\ result.championStats[3].games = 1
    /\ result.championStats[2].championId > result.championStats[3].championId

\* C4: calculateKDA returns kills + assists when deaths is 0 and
\* (kills + assists) / deaths otherwise; KDA(0,0,0) = 0, KDA(5,0,3) = 8,
\* KDA(4,2,6) = 5 and KDA(9,1,3) = 12.
C4_KDAFormula ==
    pc = "returned" =>
        LET kills   == kdaArgs[1]
            deaths  == kdaArgs[2]
            assists == kdaArgs[3]
        IN  /\ IsFinite(kdaValue)
            /\ deaths = 0 => kdaValue = <<kills + assists, 1>>
            /\ deaths # 0 => kdaValue[1] * deaths = (kills + assists) * kdaValue[2]
            /\ kdaArgs = <<0, 0, 0>> => kdaValue = <<0, 1>>
            /\ kdaArgs = <<5, 0, 3>> => kdaValue = <<8, 1>>
            /\ kdaArgs = <<4, 2, 6>> => kdaValue = <<5, 1>>
            /\ kdaArgs = <<9, 1, 3>> => kdaValue = <<12, 1>>

\* the call KDA(5, 0, 3) has returned 8
C4_Witness ==
    /\ pc = "returned"
    /\ kdaArgs = <<5, 0, 3>>
    /\ kdaValue = <<8, 1>>

\* the largest element of a non-empty set of integers, 0 for the empty set
SetMax(S) == IF S = {} THEN 0 ELSE CHOOSE x \in S : \A y \in S : y <= x

\* the input in ascending gameCreation order, equal times in input order
Chronological ==
    LET rank(i) ==
            Cardinality({j \in Positions :
                \/ matches[j].gameCreation < matches[i].gameCreation
                \/ /\ matches[j].gameCreation = matches[i].gameCreation
                   /\ j <= i})
    IN  [k \in Positions |-> matches[CHOOSE i \in Positions : rank(i) = k]]

\* the length of the longest run of consecutive matches of s with outcome w
LongestRun(s, w) ==
    SetMax({n \in 1..Len(s) :
               \E i \in 1..(Len(s) - n + 1) :
                   \A k \in i..(i + n - 1) : s[k].participant.win = w})

\* the length of the run of equal outcomes that ends at the last match of s
TrailingRun(s) ==
    SetMax({n \in 1..Len(s) :
               \A k \in (Len(s) - n + 1)..Len(s) :
                   s[k].participant.win = s[Len(s)].participant.win})

\* C5: with the matches in ascending gameCreation order, longestWinStreak and
\* longestLossStreak are the lengths of the longest runs of consecutive wins
\* and losses, and currentStreak is the type and length of the run that ends
\* at the chronologically last match.
C5_Streaks ==
    (pc = "done" /\ Len(matches) > 0) =>
        LET s == Chronological
        IN  /\ result.streaks.longestWinStreak = LongestRun(s, TRUE)
            /\ result.streaks.longestLossStreak = LongestRun(s, FALSE)
            /\ result.streaks.currentStreak =
                   [type  |-> IF s[Len(s)].participant.win THEN "win" ELSE "loss",
                    count |-> TrailingRun(s)]

\* W, W, L, W in time, handed over in another order: 2, 1 and {win, 1}
C5_Witness ==
    /\ pc = "done"
    /\ Len(matches) = 4
    /\ matches # Chronological
    /\ [k \in 1..4 |-> Chronological[k].participant.win] =
           <<TRUE, TRUE, FALSE, TRUE>>
    /\ result.streaks = [longestWinStreak  |-> 2,
                         longestLossStreak |-> 1,
                         currentStreak     |-> [type |-> "win", count |-> 1]]

\* the gameCreation timestamps of the input are pairwise distinct
DistinctTimes ==
    \A i, j \in Positions :
        i # j => matches[i].gameCreation # matches[j].gameCreation

\* C6: for an input with pairwise distinct gameCreation timestamps, every
\* permutation of the input yields the same streaks.
C6_StreaksOrderFree ==
    (pc = "done" /\ DistinctTimes) =>
        \A p \in Permutations(Positions) :
            calculateStreaks([i \in Positions |-> matches[p[i]]]) =
                result.streaks

\* a finished call on four matches of distinct times, neither in ascending
\* nor in descending time order, with wins and losses
C6_Witness ==
    /\ pc = "done"
    /\ DistinctTimes
    /\ Len(matches) = 4
    /\ matches[1].gameCreation > matches[2].gameCreation
    /\ matches[2].gameCreation < matches[3].gameCreation
    /\ result.streaks.longestWinStreak = 2
    /\ result.streaks.longestLossStreak = 2

\* the per-match KDA of a is at least that of b, by cross-multiplication
\* (a match without deaths counts kills + assists over 1)
KdaGeq(a, b) ==
    LET num(m) == m.participant.kills + m.participant.assists
        den(m) == IF m.participant.deaths = 0 THEN 1 ELSE m.participant.deaths
    IN  num(a) * den(b) >= num(b) * den(a)

KillsGeq(a, b) == a.participant.kills >= b.participant.kills

DurationGeq(a, b) == a.gameDuration >= b.gameDuration

DamageGeq(a, b) == a.participant.totalDamageDealt >= b.participant.totalDamageDealt

\* the earliest input match whose metric no input match exceeds
EarliestMax(Geq(_, _)) ==
    matches[CHOOSE i \in Positions :
                /\ \A j \in Positions : Geq(matches[i], matches[j])
                /\ \A j \in 1..(i - 1) : ~Geq(matches[j], matches[i])]

\* C7: for each of the four highlight metrics, when several input matches
\* share the maximum value the reported highlight is the one appearing
\* earliest in the input.
C7_HighlightTieBreak ==
    (pc = "done" /\ Len(matches) > 0) =>
        /\ result.highlightMatches.bestKDA = EarliestMax(KdaGeq)
        /\ result.highlightMatches.mostKills = EarliestMax(KillsGeq)
        /\ result.highlightMatches.longestGame = EarliestMax(DurationGeq)
        /\ result.highlightMatches.highestDamage = EarliestMax(DamageGeq)

\* all three matches share the maximum KDA (with different kill counts) and
\* the first is reported; the second and the third share the maximum of the
\* other metrics and the second is reported
C7_Witness ==
    /\ pc = "done"
    /\ Len(matches) = 3
    /\ matches[1].participant.kills = 1
    /\ matches[1].gameDuration = 0
    /\ matches[1].participant.totalDamageDealt = 0
    /\ \A i \in {2, 3} :
          /\ matches[i].participant.kills = 2
          /\ matches[i].gameDuration = 1500
          /\ matches[i].participant.totalDamageDealt = 900
          /\ KdaGeq(matches[i], matches[1])
          /\ KdaGeq(matches[1], matches[i])
    /\ result.highlightMatches.bestKDA = matches[1]
    /\ result.highlightMatches.mostKills = matches[2]
    /\ result.highlightMatches.longestGame = matches[2]
    /\ result.highlightMatches.highestDamage = matches[2]

\* h is an input match whose metric no input match exceeds
IsMaximal(h, Geq(_, _)) ==
    /\ h # Null
    /\ \E i \in Positions : h = matches[i]
    /\ \A j \in Positions : Geq(h, matches[j])

\* C8: for a non-empty input each of the four highlights is non-null, is an
\* element of the input and has a metric value at least that of every input
\* match, also when every match has value 0; for zero matches all four are
\* null.
C8_HighlightsPresent ==
    pc = "done" =>
        IF Len(matches) = 0
        THEN /\ result.highlightMatches.bestKDA = Null
             /\ result.highlightMatches.mostKills = Null
             /\ result.highlightMatches.longestGame = Null
             /\ result.highlightMatches.highestDamage = Null
        ELSE /\ IsMaximal(result.highlightMatches.bestKDA, KdaGeq)
             /\ IsMaximal(result.highlightMatches.mostKills, KillsGeq)
             /\ IsMaximal(result.highlightMatches.longestGame, DurationGeq)
             /\ IsMaximal(result.highlightMatches.highestDamage, DamageGeq)

\* every match of the input has value 0 for all four metrics, and the first
\* match is reported
C8_Witness ==
    /\ pc = "done"
    /\ Len(matches) = 2
    /\ \A i \in Positions :
          /\ matches[i].participant.kills = 0
          /\ matches[i].participant.assists = 0
          /\ matches[i].gameDuration = 0
          /\ matches[i].participant.totalDamageDealt = 0
    /\ result.highlightMatches.bestKDA = matches[1]
    /\ result.highlightMatches.mostKills = matches[1]
    /\ result.highlightMatches.longestGame = matches[1]
    /\ result.highlightMatches.highestDamage = matches[1]

\* the number of input matches in the calendar month with key k
GamesInMonth(k) ==
    Cardinality({i \in Positions : getMonthString(matches[i].gameCreation) = k})

\* the keys of the months with at least 5 input matches
SignificantKeys ==
    {k \in {getMonthString(matches[i].gameCreation) : i \in Positions} :
        GamesInMonth(k) >= 5}

\* C9: bestMonth and worstMonth are each the empty string or the key of a
\* month bucket with games >= 5, and both are the empty string exactly when
\* no month bucket has at least 5 games.
C9_SignificantMonths ==
    pc = "done" =>
        /\ result.temporalTrends.bestMonth \in {<<>>} \cup SignificantKeys
        /\ result.temporalTrends.worstMonth \in {<<>>} \cup SignificantKeys
        /\ (/\ result.temporalTrends.bestMonth = <<>>
            /\ result.temporalTrends.worstMonth = <<>>) <=> SignificantKeys = {}

\* five January losses and one February win: only January is reported
C9_Witness ==
    /\ pc = "done"
    /\ Len(matches) = 6
    /\ GamesInMonth(<<"2", "0", "2", "4", "-", "0", "1">>) = 5
    /\ GamesInMonth(<<"2", "0", "2", "4", "-", "0", "2">>) = 1
    /\ \A i \in Positions :
          matches[i].participant.win = (matches[i].gameCreation = 474192)
    /\ result.temporalTrends.bestMonth = <<"2", "0", "2", "4", "-", "0", "1">>
    /\ result.temporalTrends.worstMonth = <<"2", "0", "2", "4", "-", "0", "1">>

\* C10: aggregateMatchData with zero matches returns the fully degenerate
\* value, whatever the masteries argument is.
C10_EmptyInput ==
    (pc = "done" /\ Len(matches) = 0) =>
        /\ result.overview =
               [totalGames |-> 0, totalWins |-> 0, totalLosses |-> 0,
                winRate |-> <<0, 1>>, avgKDA |-> <<0, 1>>,
                avgKills |-> <<0, 1>>, avgDeaths |-> <<0, 1>>,
                avgAssists |-> <<0, 1>>, totalPlaytime |-> <<0, 1>>]
        /\ result.performanceMetrics =
               [avgVisionScore |-> <<0, 1>>, avgDamagePerMinute |-> <<0, 1>>,
                avgGoldPerMinute |-> <<0, 1>>, avgCSPerMinute |-> <<0, 1>>]
        /\ Len(result.championStats) = 0
        /\ Len(result.temporalTrends.monthlyWinRate) = 0
        /\ Len(result.temporalTrends.weeklyPerformance) = 0
        /\ Len(result.temporalTrends.bestMonth) = 0
        /\ Len(result.temporalTrends.worstMonth) = 0
        /\ DOMAIN result.roleDistribution = {}
        /\ result.highlightMatches =
               [bestKDA |-> Null, mostKills |-> Null, longestGame |-> Null,
                highestDamage |-> Null]
        /\ result.streaks =
               [longestWinStreak |-> 0, longestLossStreak |-> 0,
                currentStreak |-> [type |-> "win", count |-> 0]]

\* a finished call on zero matches and a non-empty masteries argument
C10_Witness ==
    /\ pc = "done"
    /\ Len(matches) = 0
    /\ Len(masteries) = 2

\* C11: the mastery join is a left join by champion id: a championStats
\* entry whose champion id has a mastery record carries that record's level
\* and points as masteryLevel and masteryPoints, and an entry whose champion
\* id has no mastery record has neither field; the call completes either way.
C11_MasteryLeftJoin ==
    pc = "done" =>
        \A i \in 1..Len(result.championStats) :
            LET c    == result.championStats[i]
                recs == {j \in 1..Len(masteries) :
                            masteries[j].championId = c.championId}
            IN  IF recs = {}
                THEN /\ "masteryLevel" \notin DOMAIN c
                     /\ "masteryPoints" \notin DOMAIN c
                ELSE \E j \in recs :
                        /\ "masteryLevel" \in DOMAIN c
                        /\ "masteryPoints" \in DOMAIN c
                        /\ c.masteryLevel = masteries[j].championLevel
                        /\ c.masteryPoints = masteries[j].championPoints

\* a finished call with one champion that has a mastery record, one that
\* has none, and a mastery record of a champion that was not played
C11_Witness ==
    /\ pc = "done"
    /\ Len(masteries) = 2
    /\ \E i, j \in 1..Len(result.championStats) :
           /\ result.championStats[i].championId = 2
           /\ "masteryLevel" \in DOMAIN result.championStats[i]
           /\ result.championStats[i].masteryLevel = 7
           /\ result.championStats[i].masteryPoints = 80000
           /\ result.championStats[j].championId = 1
           /\ "masteryLevel" \notin DOMAIN result.championStats[j]

\* the champion ids occurring in the input
PlayedIds == {matches[i].participant.championId : i \in Positions}

\* the positions of the matches of one champion id
MatchesOf(id) == {i \in Positions : matches[i].participant.championId = id}

\* C12: championStats has exactly one entry per distinct champion id of the
\* matches; equal ids merge, different ids never merge even with an equal
\* championName; an entry's games, wins and losses are the number of that
\* champion's matches, of those won, and games - wins (one win and one loss
\* on one champion: a single entry with games 2, wins 1, winRate 50).
C12_OneEntryPerChampionId ==
    pc = "done" =>
        /\ Len(result.championStats) = Cardinality(PlayedIds)
        /\ \A id \in PlayedIds :
               \E k \in 1..Len(result.championStats) :
                   LET c == result.championStats[k]
                   IN  /\ c.championId = id
                       /\ c.games = Cardinality(MatchesOf(id))
                       /\ c.wins = Cardinality({i \in MatchesOf(id) :
                                                   matches[i].participant.win})
                       /\ c.losses = c.games - c.wins
        /\ ( /\ Len(matches) = 2
             /\ Cardinality(PlayedIds) = 1
             /\ matches[1].participant.win # matches[2].participant.win )
           => /\ Len(result.championStats) = 1
              /\ result.championStats[1].games = 2
              /\ result.championStats[1].wins = 1
              /\ result.championStats[1].winRate = <<50, 1>>

\* a finished call with two champion ids of one championName, one of them
\* played twice with one win and one loss
C12_Witness ==
    /\ pc = "done"
    /\ PlayedIds = {1, 3}
    /\ \A i \in Positions : matches[i].participant.championName = ChampionName(1)
    /\ Len(result.championStats) = 2
    /\ result.championStats[1].games = 2
    /\ result.championStats[1].wins = 1
    /\ result.championStats[2].games = 1

\* C13: overview.winRate lies in [0, 100] for every input, is exactly 0 for
\* the empty input, and for a non-empty input equals
\* totalWins / totalGames * 100.
C13_WinRateRange ==
    pc = "done" =>
        LET w    == result.overview.winRate
            wins == Cardinality({i \in Positions : matches[i].participant.win})
        IN  /\ IsFinite(w)
            /\ w[2] > 0
            /\ 0 <= w[1]
            /\ w[1] <= 100 * w[2]
            /\ Len(matches) = 0 => w = <<0, 1>>
            /\ Len(matches) > 0 => w[1] * Len(matches) = wins * 100 * w[2]

\* a finished call whose win rate is not a whole number: one win in three
C13_Witness ==
    /\ pc = "done"
    /\ Len(matches) = 3
    /\ result.overview.totalWins = 1
    /\ result.overview.winRate = <<100, 3>>

\* the sum of one participant field, and of gameDuration, over the input
TotalOf(field) == SumSeq([i \in 1..Len(matches) |-> matches[i].participant[field]])

TotalSeconds == SumSeq([i \in 1..Len(matches) |-> matches[i].gameDuration])

\* q is total / (TotalSeconds / 60) as JavaScript computes it
IsPerMinute(q, total) ==
    IF TotalSeconds > 0
    THEN q[2] > 0 /\ q[1] * TotalSeconds = total * 60 * q[2]
    ELSE q = IF total > 0 THEN <<1, 0>> ELSE <<0, 0>>

\* C14: for a non-empty input, avgDamagePerMinute, avgGoldPerMinute and
\* avgCSPerMinute are the sums of totalDamageDealt, goldEarned and
\* totalMinionsKilled divided by the total game time in minutes (sum of
\* gameDuration / 60), not by the number of matches, and avgVisionScore is
\* the sum of visionScore divided by the number of matches.
C14_PerMinuteMetrics ==
    (pc = "done" /\ Len(matches) > 0) =>
        LET p == result.performanceMetrics
        IN  /\ IsPerMinute(p.avgDamagePerMinute, TotalOf("totalDamageDealt"))
            /\ IsPerMinute(p.avgGoldPerMinute, TotalOf("goldEarned"))
            /\ IsPerMinute(p.avgCSPerMinute, TotalOf("totalMinionsKilled"))
            /\ p.avgVisionScore[2] > 0
            /\ p.avgVisionScore[1] * Len(matches) =
                   TotalOf("visionScore") * p.avgVisionScore[2]

\* a finished call on two matches of forty minutes in all: 12000 damage is
\* 300 per minute (6000 per game), 55 vision is 27.5 per game
C14_Witness ==
    /\ pc = "done"
    /\ Len(matches) = 2
    /\ TotalSeconds = 2400
    /\ TotalOf("totalDamageDealt") = 12000
    /\ result.performanceMetrics.avgDamagePerMinute = <<300, 1>>
    /\ result.performanceMetrics.avgVisionScore = <<55, 2>>

\* the month and week keys of the input matches
MonthKeys == {getMonthString(matches[i].gameCreation) : i \in Positions}

WeekKeys == {getWeekString(matches[i].gameCreation) : i \in Positions}

\* entry e counts the matches at the positions ps
CountsBucket(e, ps) ==
    /\ e.games = Cardinality(ps)
    /\ e.games >= 1
    /\ e.wins = Cardinality({i \in ps : matches[i].participant.win})
    /\ e.losses = e.games - e.wins

\* C15: monthlyWinRate and weeklyPerformance each contain exactly one entry
\* per distinct bucket key occurring in the matches, in strictly ascending
\* key order, and each entry has games = number of matches with that key
\* (>= 1), wins = number of those won, and losses = games - wins.
C15_BucketsSortedAndCounted ==
    pc = "done" =>
        LET monthly == result.temporalTrends.monthlyWinRate
            weekly  == result.temporalTrends.weeklyPerformance
        IN  /\ {monthly[i].month : i \in 1..Len(monthly)} = MonthKeys
            /\ {weekly[i].week : i \in 1..Len(weekly)} = WeekKeys
            /\ \A i, j \in 1..Len(monthly) :
                   i < j => localeCompare(monthly[i].month, monthly[j].month) < 0
            /\ \A i, j \in 1..Len(weekly) :
                   i < j => localeCompare(weekly[i].week, weekly[j].week) < 0
            /\ \A i \in 1..Len(monthly) :
                   CountsBucket(monthly[i],
                                {k \in Positions :
                                    getMonthString(matches[k].gameCreation) =
                                        monthly[i].month})
            /\ \A i \in 1..Len(weekly) :
                   CountsBucket(weekly[i],
                                {k \in Positions :
                                    getWeekString(matches[k].gameCreation) =
                                        weekly[i].week})

\* a finished call on four matches whose first is the latest: three months,
\* one of them with a win and a loss
C15_Witness ==
    /\ pc = "done"
    /\ Len(matches) = 4
    /\ matches[1].gameCreation = 474192
    /\ matches[2].gameCreation = 473328
    /\ Len(result.temporalTrends.monthlyWinRate) = 3
    /\ result.temporalTrends.monthlyWinRate[2].games = 2
    /\ result.temporalTrends.monthlyWinRate[2].wins = 1
    /\ Len(result.temporalTrends.weeklyPerformance) = 4

\* the weekday of a day number, Monday 1 to Sunday 7
IsoWeekday(days) == ((days + 3) % 7) + 1

\* the number of ISO-8601 weeks of a year: 53 when 1 January is a Thursday,
\* or a Wednesday in a leap year
IsoWeeksInYear(year) ==
    LET jan1 == IsoWeekday(DaysFromCivil(year, 1, 1))
        leap == (year % 4 = 0 /\ year % 100 # 0) \/ year % 400 = 0
    IN  IF jan1 = 4 \/ (leap /\ jan1 = 3) THEN 53 ELSE 52

\* the ISO-8601 week number of the calendar date of a timestamp
IsoWeek(timestamp) ==
    LET days == timestamp \div 24
        year == getFullYear(timestamp)
        doy  == days - DaysFromCivil(year, 1, 1) + 1
        w    == (doy - IsoWeekday(days) + 10) \div 7
    IN  IF w < 1 THEN IsoWeeksInYear(year - 1)
        ELSE IF w > IsoWeeksInYear(year) THEN 1
        ELSE w

\* C16: weeklyPerformance groups matches by ISO week: the week number in
\* the key that getWeekString assigns to a match equals the ISO-8601 week
\* number of the match's calendar date, formatted as
\* {year}-W{two-digit week}.
C16_IsoWeek ==
    pc = "done" =>
        \A i \in Positions :
            LET t   == matches[i].gameCreation
                key == ToDecimal(getFullYear(t)) \o <<"-", "W">>
                           \o PadStart2(ToDecimal(IsoWeek(t)))
            IN  /\ getWeekString(t) = key
                /\ \E k \in 1..Len(result.temporalTrends.weeklyPerformance) :
                       result.temporalTrends.weeklyPerformance[k].week = key

\* the role label of the match at position i, undefined and "" read as
\* "UNKNOWN"
RoleLabel(i) ==
    IF "role" \notin DOMAIN matches[i].participant THEN "UNKNOWN"
    ELSE IF matches[i].participant.role = "" THEN "UNKNOWN"
    ELSE matches[i].participant.role

\* C17: roleDistribution maps each role label to the number of matches with
\* that label, a missing or empty role label being counted under the key
\* "UNKNOWN" together with the matches whose label already is "UNKNOWN"; no
\* key has count 0.
C17_RoleDistribution ==
    pc = "done" =>
        /\ DOMAIN result.roleDistribution = {RoleLabel(i) : i \in Positions}
        /\ \A i \in Positions :
               /\ RoleLabel(i) \in DOMAIN result.roleDistribution
               /\ result.roleDistribution[RoleLabel(i)] =
                      [number |-> Cardinality({k \in Positions :
                                                  RoleLabel(k) = RoleLabel(i)})]
        /\ \A r \in DOMAIN result.roleDistribution :
               result.roleDistribution[r] # [number |-> 0]

\* the PlayerAnalytics of the blocks run in the order of the code
SequentialAnalytics ==
    [overview           |-> Overview(matches),
     championStats      |-> ChampionStats(matches, BuildMasteryMap(masteries)),
     temporalTrends     |-> calculateTemporalTrends(matches),
     performanceMetrics |-> PerformanceMetrics(matches, Num(Len(matches))),
     streaks            |-> calculateStreaks(matches),
     roleDistribution   |-> calculateRoleDistribution(matches),
     highlightMatches   |-> HighlightMatches(matches)]

\* the position of a block in the order in which the blocks ran
RanAt(name) == CHOOSE i \in 1..Len(stages) : stages[i] = name

C20_InputsUnchanged == [][matches' = matches /\ masteries' = masteries]_vars

\* a finished call, streak detection included, on matches that were not
\* passed in chronological order
C20_Witness ==
    /\ pc = "done"
    /\ Len(matches) = 3
    /\ "streaks" \in Ran
    /\ matches[1].gameCreation > matches[2].gameCreation
    /\ matches # SortByGameCreation(matches)
    /\ result.streaks.longestWinStreak = 2

\* v is KDA(kills, deaths, assists) of the sums over the positions ps
IsKdaOfSums(v, ps) ==
    LET kills   == SumSeq([i \in 1..Len(matches) |->
                       IF i \in ps THEN matches[i].participant.kills ELSE 0])
        deaths  == SumSeq([i \in 1..Len(matches) |->
                       IF i \in ps THEN matches[i].participant.deaths ELSE 0])
        assists == SumSeq([i \in 1..Len(matches) |->
                       IF i \in ps THEN matches[i].participant.assists ELSE 0])
    IN  IF deaths = 0 THEN v = <<kills + assists, 1>>
        ELSE v[2] > 0 /\ v[1] * deaths = (kills + assists) * v[2]

\* C23: every aggregate KDA is the one KDA formula applied to summed counts:
\* overview.avgKDA is KDA(sum of kills, sum of deaths, sum of assists) over
\* all matches and each championStats entry's avgKDA is the KDA of the sums
\* over that champion's matches (a ratio of totals, not a mean of per-match
\* KDAs); with summed deaths 0 it is summed kills + summed assists.
C23_AggregateKDA ==
    (pc = "done" /\ Len(matches) > 0) =>
        /\ IsKdaOfSums(result.overview.avgKDA, Positions)
        /\ \A k \in 1..Len(result.championStats) :
               IsKdaOfSums(result.championStats[k].avgKDA,
                           MatchesOf(result.championStats[k].championId))

\* a finished call on a win (1/0/1) and a loss (1/2/1) on champion 1 and a
\* win (2/0/1) on champion 2: the per-match KDAs 2, 1 and 3 have mean 2,
\* the totals give 7/2; champion 1 has 4/2 (mean 3/2), champion 2 has 3
C23_Witness ==
    /\ pc = "done"
    /\ Len(matches) = 3
    /\ result.overview.avgKDA = <<7, 2>>
    /\ Len(result.championStats) = 2
    /\ result.championStats[1].championId = 1
    /\ result.championStats[1].avgKDA = <<2, 1>>
    /\ result.championStats[2].avgKDA = <<3, 1>>

\* the input matches of month k that were won
WinsInMonth(k) ==
    Cardinality({i \in Positions : /\ getMonthString(matches[i].gameCreation) = k
                                   /\ matches[i].participant.win})

\* the win rate of month a is at least that of month b
MonthRateGeq(a, b) ==
    WinsInMonth(a) * GamesInMonth(b) >= WinsInMonth(b) * GamesInMonth(a)

\* the significant months of the highest and of the lowest win rate
BestKeys == {a \in SignificantKeys : \A b \in SignificantKeys : MonthRateGeq(a, b)}

WorstKeys == {a \in SignificantKeys : \A b \in SignificantKeys : MonthRateGeq(b, a)}

\* C24: when at least one month has games >= 5, bestMonth is a significant
\* month whose winRate is >= that of every significant month and worstMonth
\* a significant month whose winRate is <= that of every significant month;
\* months with fewer than 5 games never influence the choice.
C24_BestWorstMonth ==
    (pc = "done" /\ SignificantKeys # {}) =>
        /\ result.temporalTrends.bestMonth \in BestKeys
        /\ result.temporalTrends.worstMonth \in WorstKeys

\* a finished call with three wins of five in January, one of five in
\* February and four of four in March: March has the highest rate and too
\* few games
C24_Witness ==
    /\ pc = "done"
    /\ Len(matches) = 14
    /\ GamesInMonth(<<"2", "0", "2", "4", "-", "0", "3">>) = 4
    /\ WinsInMonth(<<"2", "0", "2", "4", "-", "0", "3">>) = 4
    /\ WinsInMonth(<<"2", "0", "2", "4", "-", "0", "1">>) = 3
    /\ WinsInMonth(<<"2", "0", "2", "4", "-", "0", "2">>) = 1
    /\ result.temporalTrends.bestMonth = <<"2", "0", "2", "4", "-", "0", "1">>
    /\ result.temporalTrends.worstMonth = <<"2", "0", "2", "4", "-", "0", "2">>

\* the earliest and the latest month key of a non-empty set of keys
EarliestKey(keys) == CHOOSE a \in keys : \A b \in keys : localeCompare(a, b) <= 0

LatestKey(keys) == CHOOSE a \in keys : \A b \in keys : localeCompare(a, b) >= 0

\* C25 as stated: ties on winRate among significant months are broken by a
\* stable sort of the month-ascending list: bestMonth is the first element
\* after sorting by winRate descending (the earliest month of the highest
\* rate) and worstMonth is the first element after sorting by winRate
\* ascending (the earliest month of the lowest rate).
C25_TieBreakAsStated ==
    (pc = "done" /\ SignificantKeys # {}) =>
        /\ result.temporalTrends.bestMonth = EarliestKey(BestKeys)
        /\ result.temporalTrends.worstMonth = EarliestKey(WorstKeys)

\* C25, amended: one stable sort of the month-ascending list by winRate
\* descending decides both: bestMonth is its first element (the earliest
\* month of the highest rate) and worstMonth is its last element (the
\* latest month of the lowest rate).
C25_TieBreakOneSort ==
    (pc = "done" /\ SignificantKeys # {}) =>
        /\ result.temporalTrends.bestMonth = EarliestKey(BestKeys)
        /\ result.temporalTrends.worstMonth = LatestKey(WorstKeys)

\* a finished call with three significant months that all tie: each has two
\* wins of five
C25_Witness ==
    /\ pc = "done"
    /\ Len(matches) = 15
    /\ Cardinality(SignificantKeys) = 3
    /\ \A k \in SignificantKeys : WinsInMonth(k) = 2
    /\ result.temporalTrends.bestMonth = <<"2", "0", "2", "4", "-", "0", "1">>
    /\ result.temporalTrends.worstMonth = <<"2", "0", "2", "4", "-", "0", "3">>

\* C27: for every non-empty input that conforms to the data model
\* (gameDuration an integer >= 0, every match of duration 0 included), the
\* divisor of the per-minute metrics is non-zero and avgDamagePerMinute,
\* avgGoldPerMinute and avgCSPerMinute are finite numbers, never NaN or
\* Infinity.
C27_PerMinuteFinite ==
    (pc = "done" /\ Len(matches) > 0) =>
        /\ IsFinite(result.performanceMetrics.avgDamagePerMinute)
        /\ IsFinite(result.performanceMetrics.avgGoldPerMinute)
        /\ IsFinite(result.performanceMetrics.avgCSPerMinute)

\* the sum of the numeric counts that the mapping rd has at the keys
RECURSIVE SumOfCounts(_, _)
SumOfCounts(rd, keys) ==
    IF keys = {} THEN 0
    ELSE LET k == CHOOSE x \in keys : TRUE
         IN  rd[k].number + SumOfCounts(rd, keys \ {k})

\* the games and the wins of the entries of a bucket list sum to the totals
SumsToTotals(entries) ==
    /\ SumSeq([i \in 1..Len(entries) |-> entries[i].games]) =
           result.overview.totalGames
    /\ SumSeq([i \in 1..Len(entries) |-> entries[i].wins]) =
           result.overview.totalWins

\* C28: every match is counted in exactly one bucket of each partition: the
\* games of monthlyWinRate sum to overview.totalGames and its wins to
\* overview.totalWins, the same holds for weeklyPerformance and for the wins
\* of championStats, and the counts of roleDistribution sum to
\* overview.totalGames.
C28_PartitionSums ==
    (pc = "done" /\ Len(matches) > 0) =>
        /\ SumsToTotals(result.temporalTrends.monthlyWinRate)
        /\ SumsToTotals(result.temporalTrends.weeklyPerformance)
        /\ SumsToTotals(result.championStats)
        /\ \A r \in DOMAIN result.roleDistribution :
               "number" \in DOMAIN result.roleDistribution[r]
        /\ SumOfCounts(result.roleDistribution, DOMAIN result.roleDistribution) =
               result.overview.totalGames

\* a PlayerAnalytics value without the masteryLevel and masteryPoints fields
WithoutMastery(analytics) ==
    [analytics EXCEPT !.championStats =
        [i \in 1..Len(@) |->
            [f \in (DOMAIN @[i]) \ {"masteryLevel", "masteryPoints"} |-> @[i][f]]]]

\* the PlayerAnalytics of a call with the same matches and no masteries
AnalyticsWithoutMasteries ==
    IF Len(matches) = 0 THEN EmptyAnalytics
    ELSE [overview           |-> Overview(matches),
          championStats      |-> ChampionStats(matches, BuildMasteryMap(<<>>)),
          temporalTrends     |-> calculateTemporalTrends(matches),
          performanceMetrics |-> PerformanceMetrics(matches, Num(Len(matches))),
          streaks            |-> calculateStreaks(matches),
          roleDistribution   |-> calculateRoleDistribution(matches),
          highlightMatches   |-> HighlightMatches(matches)]

\* C29: the masteries argument influences only the masteryLevel and
\* masteryPoints fields: a call with any masteries (records of champions
\* that occur in no match included) agrees with the call with the same
\* matches and no masteries on every other field, the membership and the
\* order of championStats included.
C29_MasteriesOnlyMasteryFields ==
    pc = "done" =>
        /\ WithoutMastery(result) = WithoutMastery(AnalyticsWithoutMasteries)
        /\ \A i \in 1..Len(AnalyticsWithoutMasteries.championStats) :
               "masteryLevel" \notin DOMAIN AnalyticsWithoutMasteries.championStats[i]

\* a finished call with a mastery record of the second most played champion
\* and one of a champion that occurs in no match
C29_Witness ==
    /\ pc = "done"
    /\ Len(masteries) = 2
    /\ Len(result.championStats) = 2
    /\ result.championStats[1].championId = 1
    /\ result.championStats[1].games = 2
    /\ "masteryLevel" \notin DOMAIN result.championStats[1]
    /\ result.championStats[2].championId = 2
    /\ result.championStats[2].masteryPoints = 80000

\* the rearrangements of the input: each match keeps its contents and id
InputPermutations ==
    {[i \in Positions |-> matches[p[i]]] :
        p \in {q \in [Positions -> Positions] :
                  \A i, j \in Positions : q[i] = q[j] => i = j}}

\* the four highlight metric values of a highlightMatches record
HighlightValues(h) ==
    [bestKDA       |-> calculateKDA(h.bestKDA.participant.kills,
                                    h.bestKDA.participant.deaths,
                                    h.bestKDA.participant.assists),
     mostKills     |-> h.mostKills.participant.kills,
     longestGame   |-> h.longestGame.gameDuration,
     highestDamage |-> h.highestDamage.participant.totalDamageDealt]

\* championStats lists agree up to the order of champions with equal games
SameUpToTies(a, b) ==
    /\ Len(a) = Len(b)
    /\ {a[i] : i \in 1..Len(a)} = {b[i] : i \in 1..Len(b)}
    /\ \A i \in 1..Len(a) : a[i].games = b[i].games

\* C30: input order matters only for tie-breaking: for any permutation of
\* the input matches, overview, performanceMetrics, roleDistribution,
\* monthlyWinRate, weeklyPerformance, bestMonth and worstMonth are
\* identical, the maximum metric value of each of the four highlights is
\* identical, and championStats contains the same entries, differing at
\* most in the relative order of champions with equal games.
C30_OrderOnlyBreaksTies ==
    (pc = "done" /\ Len(matches) > 0) =>
        \A ms \in InputPermutations :
            /\ Overview(ms) = result.overview
            /\ PerformanceMetrics(ms, Num(Len(ms))) = result.performanceMetrics
            /\ calculateRoleDistribution(ms) = result.roleDistribution
            /\ calculateTemporalTrends(ms) = result.temporalTrends
            /\ HighlightValues(HighlightMatches(ms)) =
                   HighlightValues(result.highlightMatches)
            /\ SameUpToTies(ChampionStats(ms, BuildMasteryMap(masteries)),
                            result.championStats)

\* a finished call on two matches, the February one first, one per
\* champion with equal KDA: the rearranged input gives the other order of
\* the champions and the other match as bestKDA
C30_Witness ==
    /\ pc = "done"
    /\ Len(matches) = 2
    /\ matches[1].gameCreation > matches[2].gameCreation
    /\ Len(result.championStats) = 2
    /\ Len(result.temporalTrends.weeklyPerformance) = 2
    /\ \E ms \in InputPermutations :
           /\ ChampionStats(ms, BuildMasteryMap(masteries)) # result.championStats
           /\ HighlightMatches(ms).bestKDA # result.highlightMatches.bestKDA

\* C26: every iteration of the batch loop of getFullYearMatches ends the
\* loop, throws, or advances start, so that no batch is requested for ever.
C26_EveryIterationProgresses ==
    [][history.pc = "loop" =>
          (history'.pc # "loop" \/ history'.start > history.start)]_vars

\* the errors after which generateRecap answers success = false
FatalMessages ==
    {"[Recap] Error fetching account",
     "[Recap] Error fetching match history or masteries",
     "[Recap] Error aggregating analytics",
     "[Recap] Error generating AI insights",
     "[Recap] Unexpected error during recap generation"}

\* what the cache service logs when a read, or a write, failed
ReadFailed(log) == Logged("Failed to retrieve recap from DynamoDB", "dynamodb") \in log

WriteFailed(log) == Logged("Failed to save recap to DynamoDB", "dynamodb") \in log

C22_ServiceNeverThrows == recap.dynamo.threw = FALSE

C22_FailureHasOtherCause ==
    (recap.pc = "returned" /\ ~recap.response.success) =>
        \/ IsBlank(recap.riotId)
        \/ parseRiotId(recap.riotId) = Null
        \/ \E e \in recap.log : e.origin # "dynamodb" /\ e.message \in FatalMessages

C22_WriteFailureStillSucceeds ==
    (/\ recap.pc = "returned"
     /\ WriteFailed(recap.log)
     /\ \A e \in recap.log : e.origin # "next") =>
        /\ recap.response.success
        /\ recap.response.error = Null
        /\ recap.response.data.analytics = recap.calls
        /\ recap.response.data.insights = recap.calls

C22_ReadFailureContinues ==
    (recap.pc = "cache" /\ recap'.pc # "cache" /\ ReadFailed(recap'.log)) =>
        recap'.pc = "fetch"

C22_GetRecapNull ==
    (/\ recap.pc = "cache"
     /\ recap'.pc # "cache"
     /\ \/ ReadFailed(recap'.log)
        \/ recap.table.item = Null
        \/ recap.table.item.ttl < recap.now) =>
        recap'.dynamo.value = Null

\* C22: a DynamoDB failure never makes generateRecap fail.  No call of
\* saveRecap, getRecap or deleteRecap throws; a failure response has an
\* invalid riotId or a logged fatal error of another service behind it; a
\* failed cache write leaves the fresh recap returned with success = true;
\* a failed cache read is followed by fresh generation; and getRecap gives
\* null on an error, on a missing item and on an item whose ttl is past.
C22_DynamoNeverFailsRecap ==
    /\ [](C22_ServiceNeverThrows /\ C22_FailureHasOtherCause
            /\ C22_WriteFailureStillSucceeds)
    /\ [][C22_ReadFailureContinues /\ C22_GetRecapNull]_vars

\* a call whose cache read and cache write both failed returned the recap
\* it generated, with success = true
C22_Witness ==
    /\ recap.pc = "returned"
    /\ ReadFailed(recap.log)
    /\ WriteFailed(recap.log)
    /\ recap.response.success
    /\ recap.response.data.analytics = recap.calls

\* what the claim counts as a complete insights object
Complete(r) ==
    /\ Len(r.strengths) = 3
    /\ Len(r.weaknesses) = 3
    /\ Len(r.improvementAreas) = 3
    /\ Len(r.coachingTips) = 5
    /\ ~IsEmptyText(r.roast)
    /\ ~IsEmptyText(r.boast)
    /\ ~IsEmptyText(r.yearInReview)
    /\ ~IsEmptyText(r.shareableQuote)

\* C21: for every PlayerAnalytics value, the one of no matches included,
\* generateFallbackInsights returns (its padding loops end), and what it
\* returns has exactly 3 strengths, 3 weaknesses, 3 improvementAreas and
\* 5 coachingTips and a non-empty roast, boast, yearInReview and
\* shareableQuote.
C21_FallbackComplete ==
    /\ [](insights.pc = "returned" => Complete(insights.returned))
    /\ <>(insights.pc = "returned")

\* the call on the analytics of no matches returned: no strength rule
\* applied, and the loop added all three strengths
C21_Witness ==
    /\ insights.pc = "returned"
    /\ insights.analytics = EmptyAnalytics
    /\ StrengthRules(insights.analytics) = <<>>
    /\ insights.returned.strengths[3] =
           <<Lit("Dedicated "), Lit("your favorite champion"), Lit(" player with "),
             Val(<<"0">>), Lit(" games")>>
    /\ insights.returned.hiddenGems = <<>>

====
